---- MODULE Spec2Model ----
(***************************************************************************)
(* Model of app/db.py: the SQLite store of the point of sale (products,   *)
(* suppliers, customers, sales, purchases and their item tables,          *)
(* expenses, users and settings) and the operations on it.  Every         *)
(* operation opens a connection, runs its statements inside one implicit  *)
(* transaction and leaves through the connection's context manager, which *)
(* commits on a normal exit and rolls back when an exception passes       *)
(* through it; clear_transactions runs a script, whose statements are     *)
(* committed one by one.                                                  *)
(*                                                                         *)
(* REAL columns are modelled in fixed point: money in cents, tax rates in *)
(* percent.  The inputs are chosen so that every product taxable x rate   *)
(* is a whole number of cents.                                            *)
(***************************************************************************)
EXTENDS Integers, Sequences, FiniteSets, TLC

VARIABLES
    db,     \* the persisted store: one field per table, plus sqlite_sequence
    prev,   \* the persisted store as it was when the last call started
    last,   \* the last call: its name, arguments and outcome
    set_log, \* history: per key, the value of the last set_setting that returned
    stock_log, \* history: per product id, the stock the product was added with
    issued, \* history: the ids the successful record_sale and record_purchase
            \* calls have returned, in the order of the calls
    ui,     \* the sales and purchases screens: their carts and input fields
    cart_log \* history: per screen and barcode in its cart, the unit price or
             \* cost at the add that made the line and the quantities added
             \* since

vars == <<db, prev, last, set_log, stock_log, issued, ui, cart_log>>

(***************************************************************************)
(* Values                                                                  *)
(***************************************************************************)
\* SQL NULL in a TEXT column (Python None)
NULL == "NULL"
\* SQL NULL in a REAL or INTEGER column (Python None, or a float NaN, which
\* sqlite3 binds as NULL)
NullNum == -1000000
\* tax rates are in percent: rate r stands for the float r / 100
RateScale == 100

\* bounds of the model
MaxCart == 2
MaxSales == 2
MaxPurchases == 2
MaxSuppliers == 1
MaxCustomers == 1
MaxExpenses == 1

\* inputs
Discounts == {-500, 500, 5000}
TaxRates == {0, 10, 16}
\* supplier ids a purchase may name: none, the ids that can exist, one that never does
SupplierIds == {NullNum} \cup (1 .. (MaxSuppliers + 1))

Max(a, b) == IF a >= b THEN a ELSE b

(***************************************************************************)
(* The schema: init_db                                                     *)
(***************************************************************************)
\* tables with an AUTOINCREMENT id are functions from id to row; settings,
\* whose key is its PRIMARY KEY, is the set of its rows
EmptyDb ==
    [products       |-> <<>>,
     suppliers      |-> <<>>,
     customers      |-> <<>>,
     sales          |-> <<>>,
     sale_items     |-> <<>>,
     purchases      |-> <<>>,
     purchase_items |-> <<>>,
     expenses       |-> <<>>,
     users          |-> <<>>,
     settings       |-> {},
     seq            |-> [products |-> 0, suppliers |-> 0, customers |-> 0,
                         sales |-> 0, sale_items |-> 0, purchases |-> 0,
                         purchase_items |-> 0, expenses |-> 0, users |-> 0]]

\* the rows seed_sample_data inserts into an empty products table
SampleProducts ==
    <<[barcode |-> "7501055354651", name |-> "Coca Cola 600ml", price |-> 1800, stock |-> 50],
      [barcode |-> "7501000111409", name |-> "Sabritas Clasicas 45g", price |-> 1700, stock |-> 40],
      [barcode |-> "7501000632256", name |-> "Bimbo Pan Blanco", price |-> 4500, stock |-> 20],
      [barcode |-> "7501000610124", name |-> "Leche Lala 1L", price |-> 2800, stock |-> 30],
      [barcode |-> "7501001335606", name |-> "Atun Herdez 140g", price |-> 2400, stock |-> 25]>>

\* result of executing statements: the exception raised ("" for none) and the
\* state of the open transaction
Exec(err, d) == [err |-> err, db |-> d]

\* id INTEGER PRIMARY KEY without AUTOINCREMENT: one more than the largest
\* id the table holds
NextIdOfRows(d, table) ==
    IF DOMAIN d[table] = {} THEN 1
    ELSE 1 + CHOOSE m \in DOMAIN d[table] : \A k \in DOMAIN d[table] : k <= m

\* id INTEGER PRIMARY KEY AUTOINCREMENT: one more than the largest id the
\* table ever held, which sqlite_sequence records
NextId(d, table) == d.seq[table] + 1

(***************************************************************************)
(* _connect and the connection's context manager                          *)
(***************************************************************************)
\* what is persisted when the `with _connect() as conn` block is left with
\* every statement committed as soon as it ran
ConnExitAutocommit(before, r) == r.db

\* what is persisted when the `with _connect() as conn` block is left: the
\* transaction's writes after a normal exit, nothing after an exception
ConnExit(before, r) == IF r.err = "" THEN r.db ELSE before

(***************************************************************************)
(* Statements on products                                                  *)
(***************************************************************************)
BarcodeTaken(d, barcode, except) ==
    \E i \in DOMAIN d.products : i # except /\ d.products[i].barcode = barcode

\* INSERT INTO products on a schema whose barcode column is not UNIQUE
InsertProductNoUnique(d, barcode, name, price, stock) ==
    IF barcode = NULL \/ name = NULL \/ price = NullNum \/ stock = NullNum
    THEN Exec("IntegrityError", d)
    ELSE LET id == NextId(d, "products") IN
         Exec("", [d EXCEPT
                     !.products = @ @@ (id :> [barcode |-> barcode, name |-> name,
                                               price |-> price, stock |-> stock]),
                     !.seq.products = id])

\* INSERT INTO products (barcode, name, price, stock)
InsertProduct(d, barcode, name, price, stock) ==
    IF barcode = NULL \/ name = NULL \/ price = NullNum \/ stock = NullNum
    THEN Exec("IntegrityError", d)                 \* NOT NULL constraint failed
    ELSE IF BarcodeTaken(d, barcode, 0)
    THEN Exec("IntegrityError", d)                 \* UNIQUE constraint failed
    ELSE LET id == NextId(d, "products") IN
         Exec("", [d EXCEPT
                     !.products = @ @@ (id :> [barcode |-> barcode, name |-> name,
                                               price |-> price, stock |-> stock]),
                     !.seq.products = id])

\* UPDATE products on a schema where the items of sales and purchases take
\* their price and cost from the product
UpdateProductRepricing(d, product_id, barcode, name, price, stock) ==
    IF product_id \notin DOMAIN d.products
    THEN Exec("", d)
    ELSE IF barcode = NULL \/ name = NULL \/ price = NullNum \/ stock = NullNum
    THEN Exec("IntegrityError", d)
    ELSE IF BarcodeTaken(d, barcode, product_id)
    THEN Exec("IntegrityError", d)
    ELSE Exec("", [d EXCEPT
                     !.products[product_id] = [barcode |-> barcode, name |-> name,
                                               price |-> price, stock |-> stock],
                     !.sale_items = [i \in DOMAIN @ |->
                                       IF @[i].product_id = product_id
                                       THEN [@[i] EXCEPT !.price = price]
                                       ELSE @[i]]])

\* UPDATE products SET barcode, name, price, stock WHERE id = ?
UpdateProduct(d, product_id, barcode, name, price, stock) ==
    IF product_id \notin DOMAIN d.products
    THEN Exec("", d)                               \* no row matches
    ELSE IF barcode = NULL \/ name = NULL \/ price = NullNum \/ stock = NullNum
    THEN Exec("IntegrityError", d)
    ELSE IF BarcodeTaken(d, barcode, product_id)
    THEN Exec("IntegrityError", d)
    ELSE Exec("", [d EXCEPT
                     !.products[product_id] = [barcode |-> barcode, name |-> name,
                                               price |-> price, stock |-> stock]])

\* the stock update on a schema with CHECK (stock >= 0)
UpdateStockChecked(d, product_id, delta) ==
    IF product_id \notin DOMAIN d.products
    THEN Exec("", d)
    ELSE IF delta = NullNum \/ d.products[product_id].stock + delta < 0
    THEN Exec("IntegrityError", d)
    ELSE Exec("", [d EXCEPT !.products[product_id].stock = @ + delta])

\* UPDATE products SET stock = stock + delta WHERE id = ?
UpdateStock(d, product_id, delta) ==
    IF product_id \notin DOMAIN d.products
    THEN Exec("", d)
    ELSE IF delta = NullNum
    THEN Exec("IntegrityError", d)                 \* stock would become NULL
    ELSE Exec("", [d EXCEPT !.products[product_id].stock = @ + delta])

(***************************************************************************)
(* add_product, update_product                                             *)
(***************************************************************************)
\* the outcome of a call: the store it leaves, the exception it raises ("" for
\* none) and the value it returns
Outcome(d, raised, ret) == [db |-> d, raised |-> raised, ret |-> ret]

add_product(d, barcode, name, price, stock) ==
    LET r == InsertProduct(d, barcode, name, price, stock) IN
    IF r.err = "" THEN Outcome(ConnExit(d, r), "", TRUE)
    ELSE IF r.err = "IntegrityError" THEN Outcome(ConnExit(d, r), "", FALSE)
    ELSE Outcome(ConnExit(d, r), r.err, NullNum)

update_product(d, product_id, barcode, name, price, stock) ==
    LET r == UpdateProduct(d, product_id, barcode, name, price, stock) IN
    IF r.err = "" THEN Outcome(ConnExit(d, r), "", TRUE)
    ELSE IF r.err = "IntegrityError" THEN Outcome(ConnExit(d, r), "", FALSE)
    ELSE Outcome(ConnExit(d, r), r.err, NullNum)

(***************************************************************************)
(* Statements on suppliers, sales and purchases                            *)
(***************************************************************************)
\* INSERT INTO suppliers (name, phone, email, address)
InsertSupplier(d, name) ==
    IF name = NULL
    THEN Exec("IntegrityError", d)
    ELSE LET id == NextId(d, "suppliers") IN
         Exec("", [d EXCEPT !.suppliers = @ @@ (id :> [name |-> name]),
                            !.seq.suppliers = id])

\* INSERT INTO sales (created_at, subtotal, discount, tax_rate, tax_amount, total)
InsertSale(d, hdr) ==
    LET id == NextId(d, "sales") IN
    Exec("", [d EXCEPT !.sales = @ @@ (id :> hdr), !.seq.sales = id])

\* INSERT INTO sale_items (sale_id, product_id, quantity, price, line_total),
\* with FOREIGN KEY (sale_id) and FOREIGN KEY (product_id) enforced
InsertSaleItem(d, sale_id, item) ==
    IF item.quantity = NullNum \/ item.price = NullNum \/ item.line_total = NullNum
    THEN Exec("IntegrityError", d)
    ELSE IF sale_id \notin DOMAIN d.sales \/ item.product_id \notin DOMAIN d.products
    THEN Exec("IntegrityError", d)                 \* FOREIGN KEY constraint failed
    ELSE LET id == NextId(d, "sale_items") IN
         Exec("", [d EXCEPT
                     !.sale_items = @ @@ (id :> [sale_id |-> sale_id,
                                                 product_id |-> item.product_id,
                                                 quantity |-> item.quantity,
                                                 price |-> item.price,
                                                 line_total |-> item.line_total]),
                     !.seq.sale_items = id])

\* the purchase header insert on a schema whose supplier_id is NOT NULL
InsertPurchaseSupplierRequired(d, hdr) ==
    IF hdr.supplier_id \notin DOMAIN d.suppliers
    THEN Exec("IntegrityError", d)
    ELSE LET id == NextId(d, "purchases") IN
         Exec("", [d EXCEPT !.purchases = @ @@ (id :> hdr), !.seq.purchases = id])

\* INSERT INTO purchases (created_at, supplier_id, total), with
\* FOREIGN KEY (supplier_id) enforced when supplier_id is not NULL
InsertPurchase(d, hdr) ==
    IF hdr.supplier_id # NullNum /\ hdr.supplier_id \notin DOMAIN d.suppliers
    THEN Exec("IntegrityError", d)
    ELSE LET id == NextId(d, "purchases") IN
         Exec("", [d EXCEPT !.purchases = @ @@ (id :> hdr), !.seq.purchases = id])

\* the insert with the foreign keys not enforced
InsertPurchaseItemNoForeignKey(d, purchase_id, item) ==
    IF item.quantity = NullNum \/ item.cost = NullNum \/ item.line_total = NullNum
    THEN Exec("IntegrityError", d)
    ELSE LET id == NextId(d, "purchase_items") IN
         Exec("", [d EXCEPT
                     !.purchase_items = @ @@ (id :> [purchase_id |-> purchase_id,
                                                     product_id |-> item.product_id,
                                                     quantity |-> item.quantity,
                                                     cost |-> item.cost,
                                                     line_total |-> item.line_total]),
                     !.seq.purchase_items = id])

\* INSERT INTO purchase_items (purchase_id, product_id, quantity, cost, line_total)
InsertPurchaseItem(d, purchase_id, item) ==
    IF item.quantity = NullNum \/ item.cost = NullNum \/ item.line_total = NullNum
    THEN Exec("IntegrityError", d)
    ELSE IF purchase_id \notin DOMAIN d.purchases \/ item.product_id \notin DOMAIN d.products
    THEN Exec("IntegrityError", d)
    ELSE LET id == NextId(d, "purchase_items") IN
         Exec("", [d EXCEPT
                     !.purchase_items = @ @@ (id :> [purchase_id |-> purchase_id,
                                                     product_id |-> item.product_id,
                                                     quantity |-> item.quantity,
                                                     cost |-> item.cost,
                                                     line_total |-> item.line_total]),
                     !.seq.purchase_items = id])

add_supplier(d, name) ==
    LET r == InsertSupplier(d, name) IN
    Outcome(ConnExit(d, r), r.err, NullNum)

(***************************************************************************)
(* record_sale                                                             *)
(***************************************************************************)
\* sum(item["line_total"] for item in items_list)
RECURSIVE SumLineTotal(_)
SumLineTotal(items) ==
    IF items = <<>> THEN 0
    ELSE Head(items).line_total + SumLineTotal(Tail(items))

\* the header with the taxable amount not floored at zero
SaleHeaderNoFloor(items, discount, tax_rate) ==
    LET subtotal   == SumLineTotal(items)
        disc       == Max(0, discount)
        taxable    == subtotal - disc
        tax_amount == (taxable * tax_rate) \div RateScale
    IN  [subtotal |-> subtotal, discount |-> disc, tax_rate |-> tax_rate,
         tax_amount |-> tax_amount, total |-> taxable + tax_amount]

\* the header record_sale computes from its arguments
SaleHeader(items, discount, tax_rate) ==
    LET subtotal   == SumLineTotal(items)
        disc       == Max(0, discount)
        taxable    == Max(0, subtotal - disc)
        tax_amount == (taxable * tax_rate) \div RateScale
    IN  [subtotal |-> subtotal, discount |-> disc, tax_rate |-> tax_rate,
         tax_amount |-> tax_amount, total |-> taxable + tax_amount]

\* the statements of record_sale's transaction, in order: the header insert,
\* one insert per item, one stock update per item, the commit
SaleSteps(items) == 2 * Len(items) + 2

\* the statements of a record_sale that updates the stock once per product:
\* a line whose product an earlier line already named updates nothing
SaleStmtOncePerProduct(d, sale_id, hdr, items, k) ==
    LET n == Len(items) IN
    IF k = 1 THEN InsertSale(d, hdr)
    ELSE IF k <= n + 1 THEN InsertSaleItem(d, sale_id, items[k - 1])
    ELSE IF k <= 2 * n + 1
    THEN IF \E j \in 1 .. (k - n - 2) : items[j].product_id = items[k - n - 1].product_id
         THEN Exec("", d)
         ELSE UpdateStock(d, items[k - n - 1].product_id, 0 - items[k - n - 1].quantity)
    ELSE Exec("", d)

SaleStmt(d, sale_id, hdr, items, k) ==
    LET n == Len(items) IN
    IF k = 1 THEN InsertSale(d, hdr)
    ELSE IF k <= n + 1 THEN InsertSaleItem(d, sale_id, items[k - 1])
    ELSE IF k <= 2 * n + 1
    THEN UpdateStock(d, items[k - n - 1].product_id, 0 - items[k - n - 1].quantity)
    ELSE Exec("", d)

\* runs the statements from the k-th on; a storage fault at statement `fault`
\* (0 for none) raises before that statement has any effect
RECURSIVE SaleRun(_, _, _, _, _, _)
SaleRun(d, sale_id, hdr, items, k, fault) ==
    IF k > SaleSteps(items) THEN Exec("", d)
    ELSE IF k = fault THEN Exec("OperationalError", d)
    ELSE LET r == SaleStmt(d, sale_id, hdr, items, k) IN
         IF r.err # "" THEN r
         ELSE SaleRun(r.db, sale_id, hdr, items, k + 1, fault)

\* record_sale without the check for an empty cart
record_sale_unchecked(d, items, discount, tax_rate, fault) ==
    LET hdr     == SaleHeader(items, discount, tax_rate)
        sale_id == NextId(d, "sales")
        r       == SaleRun(d, sale_id, hdr, items, 1, fault)
    IN  IF r.err = ""
        THEN Outcome(ConnExit(d, r), "", <<sale_id, hdr.total>>)
        ELSE Outcome(ConnExit(d, r), r.err, NullNum)

record_sale(d, items, discount, tax_rate, fault) ==
    IF items = <<>>
    THEN Outcome(d, "ValueError", NullNum)
    ELSE LET hdr     == SaleHeader(items, discount, tax_rate)
             sale_id == NextId(d, "sales")
             r       == SaleRun(d, sale_id, hdr, items, 1, fault)
         IN  IF r.err = ""
             THEN Outcome(ConnExit(d, r), "", <<sale_id, hdr.total>>)
             ELSE Outcome(ConnExit(d, r), r.err, NullNum)

(***************************************************************************)
(* record_purchase                                                         *)
(***************************************************************************)
\* sum(item["quantity"] * item["cost"] for item in items_list)
RECURSIVE SumQuantityCost(_)
SumQuantityCost(items) ==
    IF items = <<>> THEN 0
    ELSE Head(items).quantity * Head(items).cost + SumQuantityCost(Tail(items))

\* the purchase header with the total recomputed from quantity and cost
PurchaseHeaderRecomputed(items, supplier_id) ==
    [supplier_id |-> supplier_id, total |-> SumQuantityCost(items)]

PurchaseHeader(items, supplier_id) ==
    [supplier_id |-> supplier_id, total |-> SumLineTotal(items)]

PurchaseSteps(items) == 2 * Len(items) + 2

\* the statements of a record_purchase that leaves the stock alone
PurchaseStmtNoStock(d, purchase_id, hdr, items, k) ==
    LET n == Len(items) IN
    IF k = 1 THEN InsertPurchase(d, hdr)
    ELSE IF k <= n + 1 THEN InsertPurchaseItem(d, purchase_id, items[k - 1])
    ELSE Exec("", d)

PurchaseStmt(d, purchase_id, hdr, items, k) ==
    LET n == Len(items) IN
    IF k = 1 THEN InsertPurchase(d, hdr)
    ELSE IF k <= n + 1 THEN InsertPurchaseItem(d, purchase_id, items[k - 1])
    ELSE IF k <= 2 * n + 1
    THEN UpdateStock(d, items[k - n - 1].product_id, items[k - n - 1].quantity)
    ELSE Exec("", d)

RECURSIVE PurchaseRun(_, _, _, _, _, _)
PurchaseRun(d, purchase_id, hdr, items, k, fault) ==
    IF k > PurchaseSteps(items) THEN Exec("", d)
    ELSE IF k = fault THEN Exec("OperationalError", d)
    ELSE LET r == PurchaseStmt(d, purchase_id, hdr, items, k) IN
         IF r.err # "" THEN r
         ELSE PurchaseRun(r.db, purchase_id, hdr, items, k + 1, fault)

record_purchase(d, items, supplier_id, fault) ==
    IF items = <<>>
    THEN Outcome(d, "ValueError", NullNum)
    ELSE LET hdr         == PurchaseHeader(items, supplier_id)
             purchase_id == NextId(d, "purchases")
             r           == PurchaseRun(d, purchase_id, hdr, items, 1, fault)
         IN  IF r.err = ""
             THEN Outcome(ConnExit(d, r), "", <<purchase_id, hdr.total>>)
             ELSE Outcome(ConnExit(d, r), r.err, NullNum)

(***************************************************************************)
(* Users                                                                   *)
(***************************************************************************)
\* _hash_password: the SHA-256 digest of the password in hexadecimal, of
\* which the first twelve digits are kept
hash_password(password) ==
    CASE password = "1234" -> "03ac674216f3"
      [] password = "new"  -> "11507a0e2f5e"
      [] password = ""     -> "e3b0c44298fc"

\* some row other than `except` holds the username (username TEXT UNIQUE)
UsernameTaken(d, username, except) ==
    \E id \in DOMAIN d.users : id # except /\ d.users[id].username = username

\* INSERT INTO users (username, password_hash, display_name, role);
\* is_active takes its default
InsertUser(d, username, password_hash, display_name, role) ==
    IF \/ username = NULL \/ password_hash = NULL
       \/ display_name = NULL \/ role = NULL
    THEN Exec("IntegrityError", d)
    ELSE IF UsernameTaken(d, username, 0)
    THEN Exec("IntegrityError", d)
    ELSE LET id == NextId(d, "users") IN
         Exec("", [d EXCEPT !.users = @ @@ (id :> [username |-> username,
                                                   password_hash |-> password_hash,
                                                   display_name |-> display_name,
                                                   role |-> role,
                                                   is_active |-> 1]),
                            !.seq.users = id])

\* UPDATE users without the UNIQUE constraint on username
UpdateUserNoUnique(d, user_id, username, password, display_name, role, is_active) ==
    IF user_id \notin DOMAIN d.users
    THEN Exec("", d)
    ELSE IF username = NULL \/ display_name = NULL \/ role = NULL
    THEN Exec("IntegrityError", d)
    ELSE LET row == [d.users[user_id] EXCEPT !.username = username,
                                             !.display_name = display_name,
                                             !.role = role,
                                             !.is_active = IF is_active THEN 1 ELSE 0]
         IN  Exec("", [d EXCEPT !.users[user_id] =
                          IF password # NULL /\ password # ""
                          THEN [row EXCEPT !.password_hash = hash_password(password)]
                          ELSE row])

\* UPDATE users that sets the password hash whatever the password is
UpdateUserAlwaysHash(d, user_id, username, password, display_name, role, is_active) ==
    IF user_id \notin DOMAIN d.users
    THEN Exec("", d)
    ELSE IF username = NULL \/ display_name = NULL \/ role = NULL
    THEN Exec("IntegrityError", d)
    ELSE IF UsernameTaken(d, username, user_id)
    THEN Exec("IntegrityError", d)
    ELSE Exec("", [d EXCEPT !.users[user_id] =
                      [username |-> username,
                       password_hash |-> hash_password(IF password = NULL THEN "" ELSE password),
                       display_name |-> display_name, role |-> role,
                       is_active |-> IF is_active THEN 1 ELSE 0]])

\* the two UPDATE users statements of update_user: with a password that is
\* neither None nor empty the hash is set, otherwise it is not among the
\* columns; is_active is stored as int(is_active)
UpdateUser(d, user_id, username, password, display_name, role, is_active) ==
    IF user_id \notin DOMAIN d.users
    THEN Exec("", d)
    ELSE IF username = NULL \/ display_name = NULL \/ role = NULL
    THEN Exec("IntegrityError", d)
    ELSE IF UsernameTaken(d, username, user_id)
    THEN Exec("IntegrityError", d)
    ELSE LET row == [d.users[user_id] EXCEPT !.username = username,
                                             !.display_name = display_name,
                                             !.role = role,
                                             !.is_active = IF is_active THEN 1 ELSE 0]
         IN  Exec("", [d EXCEPT !.users[user_id] =
                          IF password # NULL /\ password # ""
                          THEN [row EXCEPT !.password_hash = hash_password(password)]
                          ELSE row])

\* ensure_default_user: inserts the administrator when there is no user
ensure_default_user(d) ==
    IF Cardinality(DOMAIN d.users) > 0
    THEN Outcome(d, "", NullNum)
    ELSE LET r == InsertUser(d, "admin", hash_password("1234"),
                             "Administrador", "Administrador")
         IN  Outcome(ConnExit(d, r), r.err, NullNum)

\* add_user: an IntegrityError is caught and reported as FALSE
add_user(d, username, password, display_name, role) ==
    LET r == InsertUser(d, username, hash_password(password), display_name, role) IN
    IF r.err = "IntegrityError"
    THEN Outcome(ConnExit(d, r), "", FALSE)
    ELSE Outcome(ConnExit(d, r), r.err, TRUE)

\* update_user: an IntegrityError is caught and reported as FALSE
update_user(d, user_id, username, password, display_name, role, is_active) ==
    LET r == UpdateUser(d, user_id, username, password, display_name, role, is_active) IN
    IF r.err = "IntegrityError"
    THEN Outcome(ConnExit(d, r), "", FALSE)
    ELSE Outcome(ConnExit(d, r), r.err, TRUE)

\* verify_user accepting a matching hash whatever is_active is
verify_user_any(d, username, password) ==
    LET rows == {id \in DOMAIN d.users : d.users[id].username = username} IN
    IF rows = {}
    THEN Outcome(d, "", FALSE)
    ELSE Outcome(d, "", d.users[CHOOSE id \in rows : TRUE].password_hash
                           = hash_password(password))

\* verify_user: the row of the username, if there is one and it is active,
\* must hold the hash of the password
verify_user(d, username, password) ==
    LET rows == {id \in DOMAIN d.users : d.users[id].username = username} IN
    IF rows = {}
    THEN Outcome(d, "", FALSE)
    ELSE LET row == d.users[CHOOSE id \in rows : TRUE] IN
         IF row.is_active # 1
         THEN Outcome(d, "", FALSE)
         ELSE Outcome(d, "", row.password_hash = hash_password(password))

(***************************************************************************)
(* Settings                                                                *)
(***************************************************************************)
\* the rows of settings with the key
SettingRows(d, key) == {r \in d.settings : r.key = key}

\* INSERT INTO settings with no ON CONFLICT clause on a table with no key
UpsertSettingInsertOnly(d, key, value) ==
    IF value = NULL
    THEN Exec("IntegrityError", d)
    ELSE Exec("", [d EXCEPT !.settings = @ \cup {[key |-> key, value |-> value]}])

\* INSERT INTO settings (key, value) ... ON CONFLICT(key) DO UPDATE SET
\* value = excluded.value; value is NOT NULL
UpsertSetting(d, key, value) ==
    IF value = NULL
    THEN Exec("IntegrityError", d)
    ELSE Exec("", [d EXCEPT !.settings =
                      (@ \ SettingRows(d, key)) \cup {[key |-> key, value |-> value]}])

\* get_setting: the value of the row of the key, the default when there is none
get_setting(d, key, default) ==
    LET rows == SettingRows(d, key) IN
    IF rows = {}
    THEN Outcome(d, "", default)
    ELSE Outcome(d, "", (CHOOSE r \in rows : TRUE).value)

set_setting(d, key, value) ==
    LET r == UpsertSetting(d, key, value) IN
    Outcome(ConnExit(d, r), r.err, NullNum)

(***************************************************************************)
(* Customers and expenses                                                  *)
(***************************************************************************)
\* INSERT INTO customers (name, phone, email, address)
InsertCustomer(d, name) ==
    IF name = NULL
    THEN Exec("IntegrityError", d)
    ELSE LET id == NextId(d, "customers") IN
         Exec("", [d EXCEPT !.customers = @ @@ (id :> [name |-> name]),
                            !.seq.customers = id])

add_customer(d, name) ==
    LET r == InsertCustomer(d, name) IN
    Outcome(ConnExit(d, r), r.err, NullNum)

\* INSERT INTO expenses (created_at, concept, amount)
InsertExpense(d, concept, amount) ==
    IF concept = NULL \/ amount = NullNum
    THEN Exec("IntegrityError", d)
    ELSE LET id == NextId(d, "expenses") IN
         Exec("", [d EXCEPT !.expenses = @ @@ (id :> [concept |-> concept,
                                                      amount |-> amount]),
                            !.seq.expenses = id])

add_expense(d, concept, amount) ==
    LET r == InsertExpense(d, concept, amount) IN
    Outcome(ConnExit(d, r), r.err, NullNum)

(***************************************************************************)
(* Deletions                                                               *)
(***************************************************************************)
\* the function f without the arguments in S
Without(f, S) == [x \in DOMAIN f \ S |-> f[x]]

\* some sale item or purchase item names the product
ProductReferenced(d, product_id) ==
    \/ \E i \in DOMAIN d.sale_items : d.sale_items[i].product_id = product_id
    \/ \E i \in DOMAIN d.purchase_items : d.purchase_items[i].product_id = product_id

\* DELETE FROM products with the item rows of the product deleted along
DeleteProductCascade(d, product_id) ==
    Exec("", [d EXCEPT
        !.products = Without(@, {product_id}),
        !.sale_items = Without(@, {i \in DOMAIN @ : @[i].product_id = product_id}),
        !.purchase_items = Without(@, {i \in DOMAIN @ : @[i].product_id = product_id})])

\* DELETE FROM products WHERE id = ?; sale_items.product_id and
\* purchase_items.product_id are ON DELETE RESTRICT
DeleteProduct(d, product_id) ==
    IF product_id \in DOMAIN d.products /\ ProductReferenced(d, product_id)
    THEN Exec("IntegrityError", d)
    ELSE Exec("", [d EXCEPT !.products = Without(@, {product_id})])

\* delete_product catches nothing
delete_product(d, product_id) ==
    LET r == DeleteProduct(d, product_id) IN
    Outcome(ConnExit(d, r), r.err, NullNum)

\* DELETE FROM suppliers refused while a purchase names the supplier
DeleteSupplierRestrict(d, supplier_id) ==
    IF /\ supplier_id \in DOMAIN d.suppliers
       /\ \E p \in DOMAIN d.purchases : d.purchases[p].supplier_id = supplier_id
    THEN Exec("IntegrityError", d)
    ELSE Exec("", [d EXCEPT !.suppliers = Without(@, {supplier_id})])

\* DELETE FROM suppliers with the purchases of the supplier, and their items,
\* deleted along
DeleteSupplierCascade(d, supplier_id) ==
    IF supplier_id \notin DOMAIN d.suppliers
    THEN Exec("", d)
    ELSE LET gone == {p \in DOMAIN d.purchases :
                         d.purchases[p].supplier_id = supplier_id}
         IN  Exec("", [d EXCEPT
                 !.suppliers = Without(@, {supplier_id}),
                 !.purchases = Without(@, gone),
                 !.purchase_items =
                    Without(@, {i \in DOMAIN @ : @[i].purchase_id \in gone})])

\* DELETE FROM suppliers WHERE id = ?; purchases.supplier_id is ON DELETE
\* SET NULL
DeleteSupplier(d, supplier_id) ==
    IF supplier_id \notin DOMAIN d.suppliers
    THEN Exec("", d)
    ELSE Exec("", [d EXCEPT
            !.suppliers = Without(@, {supplier_id}),
            !.purchases = [p \in DOMAIN @ |->
                              IF @[p].supplier_id = supplier_id
                              THEN [@[p] EXCEPT !.supplier_id = NullNum]
                              ELSE @[p]]])

delete_supplier(d, supplier_id) ==
    LET r == DeleteSupplier(d, supplier_id) IN
    Outcome(ConnExit(d, r), r.err, NullNum)

(***************************************************************************)
(* clear_transactions                                                      *)
(***************************************************************************)
\* the statements of the script
ClearSteps == 5

\* the script without its last statement
ClearStmtKeepExpenses(d, k) ==
    CASE k = 1 -> Exec("", [d EXCEPT !.sale_items = <<>>])
      [] k = 2 -> Exec("", [d EXCEPT !.sales = <<>>, !.sale_items = <<>>])
      [] k = 3 -> Exec("", [d EXCEPT !.purchase_items = <<>>])
      [] k = 4 -> Exec("", [d EXCEPT !.purchases = <<>>, !.purchase_items = <<>>])
      [] OTHER -> Exec("", d)

\* the k-th statement of the script: DELETE FROM sale_items, sales,
\* purchase_items, purchases, expenses; deleting every sale or purchase
\* deletes its item rows (ON DELETE CASCADE)
ClearStmt(d, k) ==
    CASE k = 1 -> Exec("", [d EXCEPT !.sale_items = <<>>])
      [] k = 2 -> Exec("", [d EXCEPT !.sales = <<>>, !.sale_items = <<>>])
      [] k = 3 -> Exec("", [d EXCEPT !.purchase_items = <<>>])
      [] k = 4 -> Exec("", [d EXCEPT !.purchases = <<>>, !.purchase_items = <<>>])
      [] k = 5 -> Exec("", [d EXCEPT !.expenses = <<>>])
      [] OTHER -> Exec("", d)

\* executescript: there is no BEGIN in the script and sqlite3 opens no
\* transaction for it, so every statement is committed as it ends; a storage
\* fault at statement `fault` (0 for none) raises with the statements before
\* it committed
RECURSIVE ClearRun(_, _, _)
ClearRun(d, k, fault) ==
    IF k > ClearSteps THEN Exec("", d)
    ELSE IF k = fault THEN Exec("OperationalError", d)
    ELSE LET r == ClearStmt(d, k) IN
         IF r.err # "" THEN r
         ELSE ClearRun(r.db, k + 1, fault)

\* leaving `with conn` after executescript: no transaction is open, so the
\* commit and the rollback have nothing to end
ScriptExit(before, r) == r.db

clear_transactions(d, fault) ==
    LET r == ClearRun(d, 1, fault) IN
    Outcome(ScriptExit(d, r), r.err, NullNum)

(***************************************************************************)
(* State machine                                                           *)
(***************************************************************************)
\* no call has returned a result that is still being looked at
NoCall == [op |-> "none"]

\* seed_sample_data on a store with no product
SeededDb ==
    [EmptyDb EXCEPT !.products = SampleProducts,
                    !.seq.products = Len(SampleProducts)]

\* main: init_db on a new store, seed_sample_data, ensure_default_user, then
\* the two settings that have no value yet
StartupDb ==
    LET d1 == ensure_default_user(SeededDb).db
        d2 == set_setting(d1, "currency_symbol", "$").db
    IN  set_setting(d2, "ticket_footer", "Gracias por su compra").db

\* the set_setting calls main has made
StartupLog ==
    ("currency_symbol" :> "$") @@ ("ticket_footer" :> "Gracias por su compra")

\* the stock seed_sample_data gave each product
StartupStock == [p \in DOMAIN StartupDb.products |-> StartupDb.products[p].stock]

\* SalesWidget.__init__ and PurchasesWidget.__init__: empty carts, the
\* discount and payment fields at 0, no ticket written
NewWindow ==
    [cart |-> <<>>, discount |-> 0, payment |-> 0, change |-> 0,
     purchase_cart |-> <<>>, tickets |-> <<>>]

Init ==
    /\ db = StartupDb
    /\ prev = StartupDb
    /\ last = NoCall
    /\ set_log = StartupLog
    /\ stock_log = StartupStock
    /\ issued = [sales |-> <<>>, purchases |-> <<>>]
    /\ ui = NewWindow
    /\ cart_log = [sales |-> <<>>, purchases |-> <<>>]

\* str.strip of the texts typed into the barcode field
strip(text) ==
    CASE text = " 7501055354651 " -> "7501055354651"
      [] text = "  " -> ""
      [] OTHER -> text

\* the history of the carts after a handler: add_barcode with a barcode the
\* catalog has opens the entry of a barcode that has none, with the product's
\* price (in purchases the cost typed, when that is above 0) and the quantity
\* typed, and adds the quantity to an entry there is; remove_selected_item
\* closes the entry of the selected row; clear_cart and a completed sale
\* close those of the sales screen, a saved purchase those of the purchases
\* screen
Logged(log, rec, out) ==
    IF rec.op = "add_barcode"
    THEN LET b == strip(rec.barcode)
             f == log[rec.screen]
         IN  IF b = "" \/ out.ret = <<>> THEN log
             ELSE IF b \in DOMAIN f
             THEN [log EXCEPT ![rec.screen][b].quantity = @ + rec.qty]
             ELSE [log EXCEPT ![rec.screen] =
                      (b :> [unit |-> IF rec.screen = "purchases" /\ rec.cost > 0
                                      THEN rec.cost ELSE out.ret[1].price,
                             quantity |-> rec.qty]) @@ f]
    ELSE IF rec.op = "remove_selected_item"
    THEN IF rec.row = 0 THEN log
         ELSE [log EXCEPT !.sales =
                  [b \in DOMAIN @ \ {rec.selected} |-> @[b]]]
    ELSE IF rec.op = "clear_cart" \/ (rec.op = "complete_sale" /\ rec.result = "done")
    THEN [log EXCEPT !.sales = <<>>]
    ELSE IF rec.op = "save_purchase" /\ rec.result = "done"
    THEN [log EXCEPT !.purchases = <<>>]
    ELSE log

\* the products of store e that store d does not have, with their stock
NewStock(d, e) ==
    [p \in DOMAIN e.products \ DOMAIN d.products |-> e.products[p].stock]

\* one handler of a screen: the store moves to the outcome's store of the
\* call the handler makes, the call is remembered, the screen becomes u
Handle(rec, out, u) ==
    /\ last = NoCall
    /\ prev' = db
    /\ db' = out.db
    /\ last' = rec @@ [raised |-> out.raised, ret |-> out.ret]
    /\ set_log' = IF rec.op = "set_setting" /\ out.raised = ""
                  THEN (rec.key :> rec.value) @@ set_log
                  ELSE set_log
    /\ stock_log' =
         IF rec.op = "add_product" /\ out.raised = "" /\ out.ret = TRUE
         THEN (NextId(db, "products") :> rec.stock) @@ stock_log
         ELSE IF rec.op = "main" THEN NewStock(db, out.db) @@ stock_log
         ELSE stock_log
    /\ issued' =
         IF \/ rec.op = "record_sale" /\ out.raised = ""
            \/ rec.op = "complete_sale" /\ rec.recorded
         THEN [issued EXCEPT !.sales = Append(@, out.ret[1])]
         ELSE IF \/ rec.op = "record_purchase" /\ out.raised = ""
                 \/ rec.op = "save_purchase" /\ rec.recorded
         THEN [issued EXCEPT !.purchases = Append(@, out.ret[1])]
         ELSE issued
    /\ ui' = u
    /\ cart_log' = Logged(cart_log, rec, out)

\* one call: the store moves to the outcome's store, the call is remembered
Call(rec, out) == Handle(rec, out, ui)

\* the caller is done with the result of the call
Return ==
    /\ last # NoCall
    /\ last' = NoCall
    /\ prev' = db
    /\ db' = db
    /\ set_log' = set_log
    /\ stock_log' = stock_log
    /\ issued' = issued
    /\ ui' = ui
    /\ cart_log' = cart_log

AddProductFrom(BS, NS, PS, SS) ==
    \E barcode \in BS, name \in NS, price \in PS, stock \in SS :
        Call([op |-> "add_product", barcode |-> barcode, name |-> name,
              price |-> price, stock |-> stock],
             add_product(db, barcode, name, price, stock))

UpdateProductFrom(IS, BS, NS, PS, SS) ==
    \E product_id \in IS, barcode \in BS, name \in NS, price \in PS, stock \in SS :
        Call([op |-> "update_product", product_id |-> product_id,
              barcode |-> barcode, name |-> name, price |-> price, stock |-> stock],
             update_product(db, product_id, barcode, name, price, stock))

(***************************************************************************)
(* The ledger: carts, storage faults, sales and purchases                  *)
(***************************************************************************)
\* the sequences of at most n elements of S
SeqsUpTo(S, n) == UNION {[1 .. k -> S] : k \in 0 .. n}

\* a line of a sales cart, as SalesWidget builds it
SaleLine(product_id, quantity, price, line_total) ==
    [product_id |-> product_id, quantity |-> quantity, price |-> price,
     line_total |-> line_total]

\* a line of a purchases cart, as PurchasesWidget builds it
PurchaseLine(product_id, quantity, cost, line_total) ==
    [product_id |-> product_id, quantity |-> quantity, cost |-> cost,
     line_total |-> line_total]

RecordSaleFrom(IS, DS, TS, faulty) ==
    /\ db.seq.sales < MaxSales
    /\ \E items \in SeqsUpTo(IS, MaxCart), discount \in DS, tax_rate \in TS :
         \E fault \in (IF faulty THEN 0 .. SaleSteps(items) ELSE {0}) :
            Call([op |-> "record_sale", items |-> items, discount |-> discount,
                  tax_rate |-> tax_rate, fault |-> fault],
                 record_sale(db, items, discount, tax_rate, fault))

RecordPurchaseFrom(IS, SS, faulty) ==
    /\ db.seq.purchases < MaxPurchases
    /\ \E items \in SeqsUpTo(IS, MaxCart), supplier_id \in SS :
         \E fault \in (IF faulty THEN 0 .. PurchaseSteps(items) ELSE {0}) :
            Call([op |-> "record_purchase", items |-> items,
                  supplier_id |-> supplier_id, fault |-> fault],
                 record_purchase(db, items, supplier_id, fault))

\* record_sale with a cart out of a set of carts
RecordSaleOf(CS, DS, TS, faulty) ==
    /\ db.seq.sales < MaxSales
    /\ \E items \in CS, discount \in DS, tax_rate \in TS :
         \E fault \in (IF faulty THEN 0 .. SaleSteps(items) ELSE {0}) :
            Call([op |-> "record_sale", items |-> items, discount |-> discount,
                  tax_rate |-> tax_rate, fault |-> fault],
                 record_sale(db, items, discount, tax_rate, fault))

\* record_purchase with a cart out of a set of carts
RecordPurchaseOf(CS, SS, faulty) ==
    /\ db.seq.purchases < MaxPurchases
    /\ \E items \in CS, supplier_id \in SS :
         \E fault \in (IF faulty THEN 0 .. PurchaseSteps(items) ELSE {0}) :
            Call([op |-> "record_purchase", items |-> items,
                  supplier_id |-> supplier_id, fault |-> fault],
                 record_purchase(db, items, supplier_id, fault))

AddSupplier ==
    /\ db.seq.suppliers < MaxSuppliers
    /\ \E name \in {"Proveedor"} :
         Call([op |-> "add_supplier", name |-> name], add_supplier(db, name))

\* SpecLedger: sales and purchases of product 1 and of a product that does
\* not exist, purchases from no supplier and from one that does not exist,
\* with a storage fault at any statement of the transaction
LedgerSaleLines == {SaleLine(1, 30, 1800, 54000), SaleLine(6, 1, 1800, 1800)}

LedgerPurchaseLines == {PurchaseLine(1, 10, 800, 8000), PurchaseLine(6, 1, 800, 800)}

LedgerRecordSale == RecordSaleFrom(LedgerSaleLines, {500}, {10}, TRUE)

LedgerRecordPurchase == RecordPurchaseFrom(LedgerPurchaseLines, {NullNum, 1}, TRUE)

NextLedger == LedgerRecordSale \/ LedgerRecordPurchase \/ Return

SpecLedger == Init /\ [][NextLedger]_vars

\* SpecSale: sales over two products and a missing one, with a storage fault
\* at any statement of the transaction; product 1 has 50 in stock and sells
\* by 2, product 3 has 20 in stock and sells by 30
SaleLines ==
    {SaleLine(1, 2, 1800, 3600), SaleLine(3, 30, 4500, 135000), SaleLine(6, 2, 1800, 3600)}

SaleRecordSale == RecordSaleFrom(SaleLines, {500}, {10}, TRUE)

NextSale == SaleRecordSale \/ Return

SpecSale == Init /\ [][NextSale]_vars

\* SpecPurchase: purchases over two products and a missing one, from no
\* supplier, an existing one and a missing one; the second line's total is
\* not its quantity times its cost
PurchaseLines ==
    {PurchaseLine(1, 10, 800, 8000), PurchaseLine(3, 5, 800, 4500),
     PurchaseLine(6, 10, 800, 8000)}

PurchaseRecordPurchase == RecordPurchaseFrom(PurchaseLines, SupplierIds, FALSE)

NextPurchase == AddSupplier \/ PurchaseRecordPurchase \/ Return

SpecPurchase == Init /\ [][NextPurchase]_vars

\* SpecTotals: sales of one line, whose total is not its quantity times its
\* price, taken one to MaxCart times, with every discount and tax rate
TotalsLines == {SaleLine(1, 2, 1800, 2000)}

TotalsRecordSale == RecordSaleFrom(TotalsLines, Discounts, TaxRates, FALSE)

NextTotals == TotalsRecordSale \/ Return

SpecTotals == Init /\ [][NextTotals]_vars

(***************************************************************************)
(* The catalog                                                             *)
(***************************************************************************)
\* SpecCatalog: products are added and edited with barcodes that are taken
\* and free, and with names, prices and stocks that are present and missing
\* (a NaN price or stock, as the import of a sheet with a blank cell passes,
\* is bound as NULL)
CatalogAddProduct ==
    AddProductFrom({"7501055354651", "123"}, {"Agua 1L", NULL},
                   {1000, NullNum}, {5, NullNum})

CatalogUpdateProduct ==
    UpdateProductFrom({1, 2, 9}, {"7501055354651", "123"}, {"Agua 1L", NULL},
                      {1200, NullNum}, {7, NullNum})

NextCatalog == CatalogAddProduct \/ CatalogUpdateProduct \/ Return

SpecCatalog == Init /\ [][NextCatalog]_vars

(***************************************************************************)
(* Users and unique columns                                                *)
(***************************************************************************)
AddUserFrom(US, PS, NS, RS) ==
    \E username \in US, password \in PS, display_name \in NS, role \in RS :
        Call([op |-> "add_user", username |-> username, password |-> password,
              display_name |-> display_name, role |-> role],
             add_user(db, username, password, display_name, role))

UpdateUserFrom(IS, US, PS, NS, RS) ==
    \E user_id \in IS, username \in US, password \in PS, display_name \in NS,
       role \in RS, is_active \in BOOLEAN :
        Call([op |-> "update_user", user_id |-> user_id, username |-> username,
              password |-> password, display_name |-> display_name,
              role |-> role, is_active |-> is_active],
             update_user(db, user_id, username, password, display_name, role,
                         is_active))

VerifyUserFrom(US, PS) ==
    \E username \in US, password \in PS :
        Call([op |-> "verify_user", username |-> username, password |-> password],
             verify_user(db, username, password))

\* SpecUnique: products and users are added and edited with barcodes and
\* usernames that are taken and free
UniqueAddProduct ==
    AddProductFrom({"7501055354651", "123"}, {"Agua 1L"}, {1000}, {5})

UniqueUpdateProduct ==
    UpdateProductFrom({1, 6}, {"7501000111409", "123"}, {"Agua 1L"}, {1200}, {7})

UniqueAddUser == AddUserFrom({"admin", "caja"}, {"1234", "new"}, {"Caja"}, {"Cajero"})

UniqueUpdateUser ==
    UpdateUserFrom({1, 2}, {"admin", "caja"}, {NULL, "new"}, {"Caja 1"}, {"Cajero"})

NextUnique ==
    UniqueAddProduct \/ UniqueUpdateProduct \/ UniqueAddUser \/ UniqueUpdateUser
       \/ Return

SpecUnique == Init /\ [][NextUnique]_vars

\* SpecLogin: a second user is added, users are edited with and without a
\* password, renamed and deactivated, and users that exist, are inactive or
\* do not exist log in with right and wrong passwords
LoginAddUser == AddUserFrom({"admin", "caja"}, {"1234"}, {"Caja"}, {"Cajero"})

LoginUpdateUser ==
    UpdateUserFrom({1, 2}, {"admin", "caja"}, {NULL, "", "new"}, {"Caja 1"},
                   {"Cajero"})

LoginVerifyUser == VerifyUserFrom({"admin", "caja", "nadie"}, {"1234", "new"})

NextLogin == LoginAddUser \/ LoginUpdateUser \/ LoginVerifyUser \/ Return

SpecLogin == Init /\ [][NextLogin]_vars

(***************************************************************************)
(* Deleting products and suppliers                                         *)
(***************************************************************************)
DeleteProductFrom(IS) ==
    \E product_id \in IS :
        Call([op |-> "delete_product", product_id |-> product_id],
             delete_product(db, product_id))

DeleteSupplierFrom(IS) ==
    \E supplier_id \in IS :
        Call([op |-> "delete_supplier", supplier_id |-> supplier_id],
             delete_supplier(db, supplier_id))

\* SpecDelete: product 1 is sold, product 2 is purchased, and products that
\* are sold, purchased, neither and missing are deleted
DeleteSaleLines == {SaleLine(1, 2, 1800, 3600)}

DeletePurchaseLines == {PurchaseLine(2, 10, 800, 8000)}

DeleteRecordSale == RecordSaleFrom(DeleteSaleLines, {500}, {10}, FALSE)

DeleteRecordPurchase == RecordPurchaseFrom(DeletePurchaseLines, {NullNum}, FALSE)

DeleteDeleteProduct == DeleteProductFrom({1, 2, 3, 6})

NextDelete == DeleteRecordSale \/ DeleteRecordPurchase \/ DeleteDeleteProduct \/ Return

SpecDelete == Init /\ [][NextDelete]_vars

\* SpecSupplier: purchases of product 1 from no supplier and from a supplier
\* that exists or not, and deletions of suppliers that have purchases, have
\* none, or do not exist
SupplierPurchaseLines == {PurchaseLine(1, 10, 800, 8000)}

SupplierRecordPurchase ==
    RecordPurchaseFrom(SupplierPurchaseLines, {NullNum} \cup (1 .. MaxSuppliers), FALSE)

SupplierDeleteSupplier == DeleteSupplierFrom(1 .. (MaxSuppliers + 1))

NextSupplier ==
    AddSupplier \/ SupplierRecordPurchase \/ SupplierDeleteSupplier \/ Return

SpecSupplier == Init /\ [][NextSupplier]_vars

(***************************************************************************)
(* Clearing the transactions                                               *)
(***************************************************************************)
AddCustomer ==
    /\ db.seq.customers < MaxCustomers
    /\ \E name \in {"Cliente"} :
         Call([op |-> "add_customer", name |-> name], add_customer(db, name))

AddExpense ==
    /\ db.seq.expenses < MaxExpenses
    /\ \E concept \in {"Luz"}, amount \in {35000} :
         Call([op |-> "add_expense", concept |-> concept, amount |-> amount],
              add_expense(db, concept, amount))

ClearTransactions(faulty) ==
    \E fault \in (IF faulty THEN 0 .. ClearSteps ELSE {0}) :
        Call([op |-> "clear_transactions", fault |-> fault],
             clear_transactions(db, fault))

\* SpecClear: sales and purchases of product 1, an expense, a customer and a
\* supplier are recorded, and the transactions are cleared at any moment
ClearSaleCarts == {<<SaleLine(1, 2, 1800, 3600)>>}

ClearPurchaseCarts == {<<PurchaseLine(1, 10, 800, 8000)>>}

ClearRecordSale == RecordSaleOf(ClearSaleCarts, {500}, {10}, FALSE)

ClearRecordPurchase == RecordPurchaseOf(ClearPurchaseCarts, {NullNum, 1}, FALSE)

ClearClearTransactions == ClearTransactions(FALSE)

NextClear ==
    ClearRecordSale \/ ClearRecordPurchase \/ AddSupplier \/ AddCustomer
       \/ AddExpense \/ ClearClearTransactions \/ Return

SpecClear == Init /\ [][NextClear]_vars

\* SpecHistory: after sales and purchases of product 1, some of them cut
\* short by a storage fault, the product is edited (with its own barcode and
\* with one that is taken) and deleted, suppliers are added and deleted and
\* the transactions are cleared
HistorySaleCarts == {<<SaleLine(1, 2, 1800, 3600)>>}

HistoryPurchaseCarts == {<<PurchaseLine(1, 10, 800, 8000)>>}

HistoryRecordSale == RecordSaleOf(HistorySaleCarts, {500}, {10}, TRUE)

HistoryRecordPurchase == RecordPurchaseOf(HistoryPurchaseCarts, {NullNum, 1}, TRUE)

HistoryUpdateProduct ==
    UpdateProductFrom({1}, {"7501055354651", "7501000111409"}, {"Coca Cola 1L"},
                      {2500}, {50})

HistoryDeleteProduct == DeleteProductFrom({1})

HistoryDeleteSupplier == DeleteSupplierFrom({1})

HistoryClearTransactions == ClearTransactions(FALSE)

NextHistory ==
    HistoryRecordSale \/ HistoryRecordPurchase \/ HistoryUpdateProduct
       \/ HistoryDeleteProduct \/ AddSupplier \/ HistoryDeleteSupplier
       \/ HistoryClearTransactions \/ Return

SpecHistory == Init /\ [][NextHistory]_vars

\* SpecBooks: sales and purchases of product 1, the product edited, suppliers
\* added and deleted, the transactions cleared, with a storage fault at any
\* statement of a sale, of a purchase and of the clearing script
BooksSaleCarts == {<<SaleLine(1, 2, 1800, 3600), SaleLine(1, 1, 1800, 2000)>>}

BooksPurchaseCarts == {<<PurchaseLine(1, 10, 800, 8000)>>}

BooksRecordSale == RecordSaleOf(BooksSaleCarts, {500}, {10}, TRUE)

BooksRecordPurchase == RecordPurchaseOf(BooksPurchaseCarts, {NullNum, 1}, TRUE)

BooksUpdateProduct ==
    UpdateProductFrom({1}, {"7501055354651", "7501000111409"}, {"Coca Cola 1L"},
                      {2500}, {50})

BooksDeleteSupplier == DeleteSupplierFrom({1})

BooksClearTransactions == ClearTransactions(TRUE)

NextBooks ==
    BooksRecordSale \/ BooksRecordPurchase \/ BooksUpdateProduct \/ AddSupplier
       \/ BooksDeleteSupplier \/ BooksClearTransactions \/ Return

SpecBooks == Init /\ [][NextBooks]_vars

(***************************************************************************)
(* Settings, read and written                                              *)
(***************************************************************************)
SetSettingFrom(KS, VS) ==
    \E key \in KS, value \in VS :
        Call([op |-> "set_setting", key |-> key, value |-> value],
             set_setting(db, key, value))

GetSettingFrom(KS, DS) ==
    \E key \in KS, default \in DS :
        Call([op |-> "get_setting", key |-> key, default |-> default],
             get_setting(db, key, default))

\* SpecSettings: a key that main has set and one that it has not are set, to
\* values that include a missing one, and they and a key that is never set
\* are read
SettingsSetSetting ==
    SetSettingFrom({"currency_symbol", "company_name"}, {"$", "MXN", "Bs", NULL})

SettingsGetSetting ==
    GetSettingFrom({"currency_symbol", "company_name", "company_rfc"},
                   {"", "Abarrotes"})

NextSettings == SettingsSetSetting \/ SettingsGetSetting \/ Return

SpecSettings == Init /\ [][NextSettings]_vars

(***************************************************************************)
(* Searching the catalog                                                   *)
(***************************************************************************)
\* the characters of the texts the catalog and the searches use, in the
\* order of their codes
Ascii ==
    <<" ", "%", "0", "1", "2", "3", "4", "5", "6", "7", "8", "9", "A", "B",
      "C", "D", "E", "F", "G", "H", "I", "J", "K", "L", "M", "N", "O", "P",
      "Q", "R", "S", "T", "U", "V", "W", "X", "Y", "Z", "_", "a", "b", "c",
      "d", "e", "f", "g", "h", "i", "j", "k", "l", "m", "n", "o", "p", "q",
      "r", "s", "t", "u", "v", "w", "x", "y", "z">>

\* the position of a character in Ascii
Code(c) == CHOOSE i \in 1 .. Len(Ascii) : Ascii[i] = c

\* the lower-case form LIKE compares with: the letters A to Z fold, nothing
\* else does
Lower(c) == IF Code(c) >= Code("A") /\ Code(c) <= Code("Z")
            THEN Ascii[Code(c) - Code("A") + Code("a")]
            ELSE c

\* a text as the sequence of its characters
Chars(text) ==
    CASE text = "7501055354651" ->
            <<"7", "5", "0", "1", "0", "5", "5", "3", "5", "4", "6", "5",
              "1">>
      [] text = "7501000111409" ->
            <<"7", "5", "0", "1", "0", "0", "0", "1", "1", "1", "4", "0",
              "9">>
      [] text = "7501000632256" ->
            <<"7", "5", "0", "1", "0", "0", "0", "6", "3", "2", "2", "5",
              "6">>
      [] text = "7501000610124" ->
            <<"7", "5", "0", "1", "0", "0", "0", "6", "1", "0", "1", "2",
              "4">>
      [] text = "7501001335606" ->
            <<"7", "5", "0", "1", "0", "0", "1", "3", "3", "5", "6", "0",
              "6">>
      [] text = "Coca Cola 600ml" ->
            <<"C", "o", "c", "a", " ", "C", "o", "l", "a", " ", "6", "0",
              "0", "m", "l">>
      [] text = "Sabritas Clasicas 45g" ->
            <<"S", "a", "b", "r", "i", "t", "a", "s", " ", "C", "l", "a",
              "s", "i", "c", "a", "s", " ", "4", "5", "g">>
      [] text = "Bimbo Pan Blanco" ->
            <<"B", "i", "m", "b", "o", " ", "P", "a", "n", " ", "B", "l",
              "a", "n", "c", "o">>
      [] text = "Leche Lala 1L" ->
            <<"L", "e", "c", "h", "e", " ", "L", "a", "l", "a", " ", "1",
              "L">>
      [] text = "Atun Herdez 140g" ->
            <<"A", "t", "u", "n", " ", "H", "e", "r", "d", "e", "z", " ",
              "1", "4", "0", "g">>
      [] text = "A_1" ->
            <<"A", "_", "1">>
      [] text = "B2" ->
            <<"B", "2">>
      [] text = "Jabon 50%" ->
            <<"J", "a", "b", "o", "n", " ", "5", "0", "%">>
      [] text = "coca light" ->
            <<"c", "o", "c", "a", " ", "l", "i", "g", "h", "t">>
      [] text = "" ->
            <<>>
      [] text = "%" ->
            <<"%">>
      [] text = "_" ->
            <<"_">>
      [] text = "COCA" ->
            <<"C", "O", "C", "A">>
      [] text = "50%" ->
            <<"5", "0", "%">>
      [] text = "a_1" ->
            <<"a", "_", "1">>
      [] text = "lala" ->
            <<"l", "a", "l", "a">>

\* txt LIKE pat: % stands for any run of characters, _ for any one character,
\* every other character for itself, letters compared without case; there is
\* no ESCAPE clause
RECURSIVE Like(_, _)
Like(pat, txt) ==
    IF pat = <<>> THEN txt = <<>>
    ELSE IF Head(pat) = "%"
    THEN Like(Tail(pat), txt) \/ (txt # <<>> /\ Like(pat, Tail(txt)))
    ELSE /\ txt # <<>>
         /\ Head(pat) = "_" \/ Lower(Head(pat)) = Lower(Head(txt))
         /\ Like(Tail(pat), Tail(txt))

\* ORDER BY name ASC compares the texts code by code
RECURSIVE TextLeq(_, _)
TextLeq(a, b) ==
    IF a = <<>> THEN TRUE
    ELSE IF b = <<>> THEN FALSE
    ELSE IF Head(a) # Head(b) THEN Code(Head(a)) < Code(Head(b))
    ELSE TextLeq(Tail(a), Tail(b))

\* the orders in which the products with an id in ids may be returned: by
\* name ascending, equal names in any order
RECURSIVE OrderedByName(_, _)
OrderedByName(d, ids) ==
    IF ids = {} THEN {<<>>}
    ELSE LET first == {p \in ids : \A q \in ids :
                          TextLeq(Chars(d.products[p].name), Chars(d.products[q].name))}
         IN  UNION {{<<p>> \o rest : rest \in OrderedByName(d, ids \ {p})} :
                       p \in first}

\* the row of a product as a SELECT returns it
ProductRow(d, p) ==
    [id |-> p, barcode |-> d.products[p].barcode, name |-> d.products[p].name,
     price |-> d.products[p].price, stock |-> d.products[p].stock]

\* list_products: the outcomes the query may have; with a search that is not
\* empty the rows WHERE barcode LIKE %search% OR name LIKE %search%
list_products(d, search) ==
    LET like == <<"%">> \o Chars(search) \o <<"%">>
        ids  == IF search = ""
                THEN DOMAIN d.products
                ELSE {p \in DOMAIN d.products :
                         \/ Like(like, Chars(d.products[p].barcode))
                         \/ Like(like, Chars(d.products[p].name))}
    IN  {Outcome(d, "", [k \in 1 .. Len(order) |-> ProductRow(d, order[k])]) :
            order \in OrderedByName(d, ids)}

ListProductsFrom(SS) ==
    \E search \in SS :
        \E out \in list_products(db, search) :
            Call([op |-> "list_products", search |-> search], out)

\* SpecSearch: products whose barcode and name hold % and _ and letters of
\* both cases are added, and the catalog is searched with terms that are
\* empty, hold % or _, or differ from the texts in case
SearchAddProduct ==
    AddProductFrom({"A_1", "B2"}, {"Jabon 50%", "coca light"}, {1000}, {1})

SearchListProducts == ListProductsFrom({"", "%", "_", "50%", "a_1", "COCA", "lala"})

NextSearch == SearchAddProduct \/ SearchListProducts \/ Return

SpecSearch == Init /\ [][NextSearch]_vars

(***************************************************************************)
(* Reports                                                                 *)
(***************************************************************************)
\* DATE(x) compared with the whole text: no conversion
DateOfWhole(text) == text

\* DATE(x): the date of a timestamp or of a date, NULL for any other text
DateOf(text) ==
    CASE text = "2026-11-01 00:00:00" -> "2026-11-01"
      [] text = "2026-11-01 23:59:59" -> "2026-11-01"
      [] text = "2026-11-02 08:30:00" -> "2026-11-02"
      [] text = "2026-11-01"          -> "2026-11-01"
      [] text = "2026-11-02"          -> "2026-11-02"
      [] text = "2026-11-03"          -> "2026-11-03"
      [] OTHER                        -> NULL

\* record_sale at a moment of the clock: the header row carries created_at,
\* the local time with a space between date and time, to the second
record_sale_at(d, created_at, items, discount, tax_rate, fault) ==
    LET out == record_sale(d, items, discount, tax_rate, fault) IN
    IF out.raised # ""
    THEN out
    ELSE [out EXCEPT !.db.sales[out.ret[1]] = @ @@ [created_at |-> created_at]]

\* SUM(column) over the rows of an item table with an id in ids
RECURSIVE SumColumn(_, _, _)
SumColumn(rows, ids, column) ==
    IF ids = {} THEN 0
    ELSE LET i == CHOOSE x \in ids : TRUE IN
         rows[i][column] + SumColumn(rows, ids \ {i}, column)

\* GROUP BY p.id, p.barcode, p.name over the sale items with an id in ids,
\* joined with their product: one row per product
SummaryRows(d, ids) ==
    {[barcode  |-> d.products[p].barcode,
      name     |-> d.products[p].name,
      quantity |-> SumColumn(d.sale_items,
                             {i \in ids : d.sale_items[i].product_id = p}, "quantity"),
      total    |-> SumColumn(d.sale_items,
                             {i \in ids : d.sale_items[i].product_id = p}, "line_total")] :
        p \in {q \in DOMAIN d.products :
                  \E i \in ids : d.sale_items[i].product_id = q}}

\* ORDER BY SUM(si.quantity) DESC: the orders the rows may come in, rows of
\* equal quantity in any order
RECURSIVE OrderedByQuantity(_)
OrderedByQuantity(rows) ==
    IF rows = {} THEN {<<>>}
    ELSE LET first == {r \in rows : \A q \in rows : r.quantity >= q.quantity} IN
         UNION {{<<r>> \o rest : rest \in OrderedByQuantity(rows \ {r})} :
                   r \in first}

\* get_daily_sales_summary: the outcomes the query may have, over the items
\* of the sales WHERE DATE(s.created_at) = DATE(?)
get_daily_sales_summary(d, target_date) ==
    LET ids == {i \in DOMAIN d.sale_items :
                   /\ d.sale_items[i].sale_id \in DOMAIN d.sales
                   /\ DateOf(target_date) # NULL
                   /\ DateOf(d.sales[d.sale_items[i].sale_id].created_at)
                         = DateOf(target_date)}
    IN  {Outcome(d, "", rows) : rows \in OrderedByQuantity(SummaryRows(d, ids))}

\* get_top_products: the same over every sale item, LIMIT ?; a negative limit
\* is no limit
get_top_products(d, limit) ==
    {Outcome(d, "", IF limit < 0 \/ limit >= Len(rows)
                    THEN rows
                    ELSE SubSeq(rows, 1, limit)) :
        rows \in OrderedByQuantity(SummaryRows(d, DOMAIN d.sale_items))}

RecordSaleAt(CS, NS, DS, TS, faulty) ==
    /\ db.seq.sales < MaxSales
    /\ \E items \in CS, created_at \in NS, discount \in DS, tax_rate \in TS :
         \E fault \in (IF faulty THEN 0 .. SaleSteps(items) ELSE {0}) :
            Call([op |-> "record_sale", items |-> items, discount |-> discount,
                  tax_rate |-> tax_rate, fault |-> fault, created_at |-> created_at],
                 record_sale_at(db, created_at, items, discount, tax_rate, fault))

DailySalesSummaryFrom(DS) ==
    \E target_date \in DS :
        \E out \in get_daily_sales_summary(db, target_date) :
            Call([op |-> "get_daily_sales_summary", target_date |-> target_date], out)

TopProductsFrom(LS) ==
    \E limit \in LS :
        \E out \in get_top_products(db, limit) :
            Call([op |-> "get_top_products", limit |-> limit], out)

\* SpecReport: sales of products 1 and 2 at the first and the last second of
\* a day and on the next day, and the reports of those days, of a day with
\* no sale and of a text that is no date, and the top products
ReportSaleCarts ==
    {<<SaleLine(1, 2, 1800, 3600)>>,
     <<SaleLine(1, 1, 1800, 1800), SaleLine(2, 3, 1700, 5100)>>}

ReportMoments ==
    {"2026-11-01 00:00:00", "2026-11-01 23:59:59", "2026-11-02 08:30:00"}

ReportRecordSale == RecordSaleAt(ReportSaleCarts, ReportMoments, {0}, {0}, FALSE)

ReportDailySalesSummary ==
    DailySalesSummaryFrom({"2026-11-01", "2026-11-02", "2026-11-03", "01/11/2026"})

ReportTopProducts == TopProductsFrom({1, 20})

NextReport ==
    ReportRecordSale \/ ReportDailySalesSummary \/ ReportTopProducts \/ Return

SpecReport == Init /\ [][NextReport]_vars

(***************************************************************************)
(* Startup                                                                 *)
(***************************************************************************)
\* the store before init_db has ever run: a file with no table
NewStore == [tables |-> {}]

\* init_db: CREATE TABLE IF NOT EXISTS for every table; on a store that has
\* the tables, with the columns _ensure_column looks for, nothing is written
init_db(d) == IF d = NewStore THEN Outcome(EmptyDb, "", NullNum)
              ELSE Outcome(d, "", NullNum)

\* executemany: the INSERT once per row, from the k-th row on
RECURSIVE InsertProducts(_, _, _)
InsertProducts(d, rows, k) ==
    IF k > Len(rows) THEN Exec("", d)
    ELSE LET r == InsertProduct(d, rows[k].barcode, rows[k].name, rows[k].price,
                                rows[k].stock)
         IN  IF r.err # "" THEN r ELSE InsertProducts(r.db, rows, k + 1)

\* seed_sample_data: inserts the sample products when there is no product
seed_sample_data(d) ==
    IF Cardinality(DOMAIN d.products) > 0
    THEN Outcome(d, "", NullNum)
    ELSE LET r == InsertProducts(d, SampleProducts, 1) IN
         Outcome(ConnExit(d, r), r.err, NullNum)

\* DELETE FROM users WHERE id = ?
DeleteUser(d, user_id) == Exec("", [d EXCEPT !.users = Without(@, {user_id})])

delete_user(d, user_id) ==
    LET r == DeleteUser(d, user_id) IN
    Outcome(ConnExit(d, r), r.err, NullNum)

\* main with the two settings written whatever their value is
main_overwriting(d) ==
    LET d1 == init_db(d).db
        d2 == seed_sample_data(d1).db
        d3 == ensure_default_user(d2).db
        d4 == set_setting(d3, "currency_symbol", "$").db
    IN  Outcome(set_setting(d4, "ticket_footer", "Gracias por su compra").db,
                "", NullNum)

\* main, up to the creation of the application: init_db, seed_sample_data,
\* ensure_default_user, then each of the two settings if it reads as empty
main(d) ==
    LET d1 == init_db(d).db
        d2 == seed_sample_data(d1).db
        d3 == ensure_default_user(d2).db
        d4 == IF get_setting(d3, "currency_symbol", "").ret = ""
              THEN set_setting(d3, "currency_symbol", "$").db
              ELSE d3
        d5 == IF get_setting(d4, "ticket_footer", "").ret = ""
              THEN set_setting(d4, "ticket_footer", "Gracias por su compra").db
              ELSE d4
    IN  Outcome(d5, "", NullNum)

\* the program is started again on the store as it is
Restart == Call([op |-> "main"], main(db))

DeleteUserFrom(IS) ==
    \E user_id \in IS :
        Call([op |-> "delete_user", user_id |-> user_id], delete_user(db, user_id))

\* SpecStartup: between starts of the program the seeded products and the
\* administrator are edited and deleted, down to none, and the two default
\* settings are changed and emptied
StartupDeleteProduct == DeleteProductFrom(1 .. Len(SampleProducts))

StartupUpdateProduct ==
    UpdateProductFrom({1}, {"7501055354651"}, {"Coca Cola 1L"}, {2500}, {50})

StartupUpdateUser == UpdateUserFrom({1}, {"root"}, {"new"}, {"Caja 1"}, {"Cajero"})

StartupDeleteUser == DeleteUserFrom({1})

StartupSetSetting ==
    SetSettingFrom({"currency_symbol", "ticket_footer"}, {"MXN", ""})

NextStartup ==
    Restart \/ StartupDeleteProduct \/ StartupUpdateProduct \/ StartupUpdateUser
       \/ StartupDeleteUser \/ StartupSetSetting \/ Return

SpecStartup == Init /\ [][NextStartup]_vars

(***************************************************************************)
(* Stock as a ledger                                                       *)
(***************************************************************************)
\* a new product and one with a barcode the catalog has; carts with a catalog
\* product, with the product add_product creates (missing until then) and
\* with a product sold twice; a fault at any statement of either transaction
StockAddProduct ==
    AddProductFrom({"123", "7501055354651"}, {"Pan"}, {1000}, {5})

StockSaleCarts ==
    {<<SaleLine(1, 2, 1800, 3600), SaleLine(6, 1, 1000, 1000)>>,
     <<SaleLine(1, 30, 1800, 54000), SaleLine(1, 30, 1800, 54000)>>}

StockPurchaseCarts ==
    {<<PurchaseLine(6, 10, 800, 8000)>>,
     <<PurchaseLine(1, 10, 800, 8000), PurchaseLine(2, 5, 900, 4500)>>}

StockRecordSale == RecordSaleOf(StockSaleCarts, {0}, {0}, TRUE)

StockRecordPurchase == RecordPurchaseOf(StockPurchaseCarts, {NullNum}, TRUE)

NextStock ==
    StockAddProduct \/ StockRecordSale \/ StockRecordPurchase \/ Return

SpecStock == Init /\ [][NextStock]_vars

(***************************************************************************)
(* The sales and purchases screens                                         *)
(***************************************************************************)
\* the largest quantity a cart line is let to reach
MaxQuantity == 3

\* get_product_by_barcode: fetchone of the rows WHERE barcode = ?, returned
\* as <<row>>, or as <<>> for None
get_product_by_barcode(d, barcode) ==
    LET ids == {p \in DOMAIN d.products : d.products[p].barcode = barcode}
    IN  Outcome(d, "", IF ids = {} THEN <<>>
                       ELSE <<ProductRow(d, CHOOSE p \in ids : TRUE)>>)

\* the position in a cart of the line kept under a barcode, 0 for none; the
\* cart is a dict keyed by barcode, kept here in its insertion order
CartIndex(cart, barcode) ==
    IF \E i \in DOMAIN cart : cart[i].barcode = barcode
    THEN CHOOSE i \in DOMAIN cart : cart[i].barcode = barcode
    ELSE 0

\* the cart without the line at position i
CartWithout(cart, i) ==
    [k \in 1 .. (Len(cart) - 1) |-> IF k < i THEN cart[k] ELSE cart[k + 1]]

\* SalesWidget.update_table: the change label follows the cart and the fields
update_table(u) ==
    [u EXCEPT !.change =
        Max(0, u.payment - Max(0, SumLineTotal(u.cart) - u.discount))]

\* add_barcode that takes the catalog's price at every add
sales_add_barcode_repricing(d, u, text, qty) ==
    LET barcode == strip(text)
        found   == get_product_by_barcode(d, barcode).ret
        i       == CartIndex(u.cart, barcode)
    IN  IF barcode = "" \/ found = <<>> THEN u
        ELSE IF i # 0
        THEN update_table(
                 [u EXCEPT !.cart[i].quantity = @ + qty,
                           !.cart[i].price = found[1].price,
                           !.cart[i].line_total =
                               found[1].price * (u.cart[i].quantity + qty)])
        ELSE update_table(
                 [u EXCEPT !.cart = Append(@,
                     [product_id |-> found[1].id, barcode |-> found[1].barcode,
                      name |-> found[1].name, price |-> found[1].price,
                      quantity |-> qty, line_total |-> found[1].price * qty])])

\* SalesWidget.add_barcode: the screen after the handler
sales_add_barcode(d, u, text, qty) ==
    LET barcode == strip(text)
        found   == get_product_by_barcode(d, barcode).ret
        i       == CartIndex(u.cart, barcode)
    IN  IF barcode = "" \/ found = <<>> THEN u
        ELSE IF i # 0
        THEN update_table(
                 [u EXCEPT !.cart[i].quantity = @ + qty,
                           !.cart[i].line_total =
                               u.cart[i].price * (u.cart[i].quantity + qty)])
        ELSE update_table(
                 [u EXCEPT !.cart = Append(@,
                     [product_id |-> found[1].id, barcode |-> found[1].barcode,
                      name |-> found[1].name, price |-> found[1].price,
                      quantity |-> qty, line_total |-> found[1].price * qty])])

\* SalesWidget.remove_selected_item with table row `row` selected (0: none)
remove_selected_item(u, row) ==
    IF row < 1 \/ row > Len(u.cart) THEN u
    ELSE update_table([u EXCEPT !.cart = CartWithout(@, row)])

\* SalesWidget.clear_cart
clear_cart(u) == update_table([u EXCEPT !.cart = <<>>])

\* complete_sale that does not compare the payment with the total due
complete_sale_unpaid(d, u, fault, ticket) ==
    LET r    == record_sale(d, u.cart, u.discount, 0, fault)
        idle == Outcome(d, "", NullNum)
    IN  IF u.cart = <<>>
        THEN [result |-> "empty", out |-> idle, change |-> NullNum, ui |-> u]
        ELSE IF r.raised # ""
        THEN [result |-> "error", out |-> r, change |-> NullNum, ui |-> u]
        ELSE IF ticket = "failed"
        THEN [result |-> "ticket_error", out |-> r,
              change |-> Max(0, u.payment - r.ret[2]), ui |-> u]
        ELSE [result |-> "done", out |-> r,
              change |-> Max(0, u.payment - r.ret[2]),
              ui |-> [clear_cart(u) EXCEPT
                          !.discount = 0, !.payment = 0, !.change = 0,
                          !.tickets = Append(@, r.ret[1])]]

\* SalesWidget.complete_sale: what the handler did, the outcome of the
\* record_sale it called, the change it computed and the screen it leaves.
\* An exception of record_sale is caught and shown; _generate_ticket_pdf
\* runs after the commit and outside the try, so when it raises (ticket is
\* "failed") the handler ends there, before clear_cart and the resets
complete_sale(d, u, fault, ticket) ==
    LET total_due == Max(0, SumLineTotal(u.cart) - u.discount)
        r         == record_sale(d, u.cart, u.discount, 0, fault)
        idle      == Outcome(d, "", NullNum)
    IN  IF u.cart = <<>>
        THEN [result |-> "empty", out |-> idle, change |-> NullNum, ui |-> u]
        ELSE IF u.payment < total_due
        THEN [result |-> "insufficient", out |-> idle, change |-> NullNum,
              ui |-> u]
        ELSE IF r.raised # ""
        THEN [result |-> "error", out |-> r, change |-> NullNum, ui |-> u]
        ELSE IF ticket = "failed"
        THEN [result |-> "ticket_error", out |-> r,
              change |-> Max(0, u.payment - r.ret[2]), ui |-> u]
        ELSE [result |-> "done", out |-> r,
              change |-> Max(0, u.payment - r.ret[2]),
              ui |-> [clear_cart(u) EXCEPT
                          !.discount = 0, !.payment = 0, !.change = 0,
                          !.tickets = Append(@, r.ret[1])]]

\* PurchasesWidget.add_barcode: the screen after the handler; a cost of 0 or
\* less stands for the product's price
purchases_add_barcode(d, u, text, qty, cost) ==
    LET barcode == strip(text)
        found   == get_product_by_barcode(d, barcode).ret
        i       == CartIndex(u.purchase_cart, barcode)
        c       == IF cost <= 0 THEN found[1].price ELSE cost
    IN  IF barcode = "" \/ found = <<>> THEN u
        ELSE IF i # 0
        THEN [u EXCEPT !.purchase_cart[i].quantity = @ + qty,
                       !.purchase_cart[i].line_total =
                           u.purchase_cart[i].cost
                               * (u.purchase_cart[i].quantity + qty)]
        ELSE [u EXCEPT !.purchase_cart = Append(@,
                 [product_id |-> found[1].id, barcode |-> found[1].barcode,
                  name |-> found[1].name, cost |-> c, quantity |-> qty,
                  line_total |-> c * qty])]

\* save_purchase that clears the cart whatever record_purchase did
save_purchase_clearing(d, u, supplier_id, fault) ==
    LET r == record_purchase(d, u.purchase_cart, supplier_id, fault) IN
    IF u.purchase_cart = <<>>
    THEN [result |-> "empty", out |-> Outcome(d, "", NullNum), ui |-> u]
    ELSE [result |-> IF r.raised # "" THEN "error" ELSE "done", out |-> r,
          ui |-> [u EXCEPT !.purchase_cart = <<>>]]

\* PurchasesWidget.save_purchase: an exception of record_purchase is caught
\* and shown and the cart stays; otherwise the cart is cleared
save_purchase(d, u, supplier_id, fault) ==
    LET r == record_purchase(d, u.purchase_cart, supplier_id, fault) IN
    IF u.purchase_cart = <<>>
    THEN [result |-> "empty", out |-> Outcome(d, "", NullNum), ui |-> u]
    ELSE IF r.raised # ""
    THEN [result |-> "error", out |-> r, ui |-> u]
    ELSE [result |-> "done", out |-> r,
          ui |-> [u EXCEPT !.purchase_cart = <<>>]]

\* the handlers as steps of the screens
SalesAddBarcodeFrom(BS, QS) ==
    \E text \in BS, qty \in QS :
        /\ LET i == CartIndex(ui.cart, strip(text))
           IN  qty + (IF i = 0 THEN 0 ELSE ui.cart[i].quantity) <= MaxQuantity
        /\ Handle([op |-> "add_barcode", screen |-> "sales", barcode |-> text,
                   qty |-> qty, cost |-> 0],
                  get_product_by_barcode(db, strip(text)),
                  sales_add_barcode(db, ui, text, qty))

PurchasesAddBarcodeFrom(BS, QS, CS) ==
    \E text \in BS, qty \in QS, cost \in CS :
        /\ LET i == CartIndex(ui.purchase_cart, strip(text))
           IN  qty + (IF i = 0 THEN 0 ELSE ui.purchase_cart[i].quantity)
                   <= MaxQuantity
        /\ Handle([op |-> "add_barcode", screen |-> "purchases",
                   barcode |-> text, qty |-> qty, cost |-> cost],
                  get_product_by_barcode(db, strip(text)),
                  purchases_add_barcode(db, ui, text, qty, cost))

RemoveSelectedItem ==
    \E row \in 0 .. Len(ui.cart) :
        Handle([op |-> "remove_selected_item", row |-> row,
                selected |-> IF row = 0 THEN "" ELSE ui.cart[row].barcode],
               Outcome(db, "", NullNum), remove_selected_item(ui, row))

ClearCart ==
    Handle([op |-> "clear_cart"], Outcome(db, "", NullNum), clear_cart(ui))

\* the user edits the discount field, the payment field
SetDiscountFrom(DS) ==
    \E v \in DS :
        Handle([op |-> "set_discount", value |-> v], Outcome(db, "", NullNum),
               update_table([ui EXCEPT !.discount = v]))

SetPaymentFrom(PS) ==
    \E v \in PS :
        Handle([op |-> "set_payment", value |-> v], Outcome(db, "", NullNum),
               update_table([ui EXCEPT !.payment = v]))

\* the "Finalizar venta" button; a fault or a failing ticket is drawn only
\* where the handler gets that far
CompleteSale(faulty, TS) ==
    /\ db.seq.sales < MaxSales
    /\ \E fault \in (IF faulty THEN 0 .. SaleSteps(ui.cart) ELSE {0}),
          ticket \in TS :
         LET h == complete_sale(db, ui, fault, ticket) IN
         /\ h.result \in {"empty", "insufficient"} => fault = 0
         /\ h.result \in {"empty", "insufficient", "error"} => ticket = "saved"
         /\ Handle([op |-> "complete_sale", result |-> h.result,
                    recorded |-> h.result \in {"ticket_error", "done"},
                    items |-> ui.cart, discount |-> ui.discount,
                    payment |-> ui.payment, change |-> h.change,
                    fault |-> fault, ticket |-> ticket],
                   h.out, h.ui)

\* the "Guardar compra" button
SavePurchase(SS, faulty) ==
    /\ db.seq.purchases < MaxPurchases
    /\ \E supplier_id \in SS,
          fault \in (IF faulty THEN 0 .. PurchaseSteps(ui.purchase_cart)
                     ELSE {0}) :
         LET h == save_purchase(db, ui, supplier_id, fault) IN
         /\ h.result = "empty" => fault = 0
         /\ Handle([op |-> "save_purchase", result |-> h.result,
                    recorded |-> h.result = "done",
                    items |-> ui.purchase_cart, supplier_id |-> supplier_id,
                    fault |-> fault],
                   h.out, h.ui)

(***************************************************************************)
(* Carts that outlive their products                                       *)
(***************************************************************************)
\* products 1 and 2 are put in the sales cart and product 1 in the purchases
\* cart, each once; product 1 can be deleted while it is there; carts naming
\* a product that never existed go to the ledger too
StaleBarcodes == {"7501055354651", "7501000111409"}

StaleSalesAddBarcode == SalesAddBarcodeFrom(StaleBarcodes, {MaxQuantity})

StalePurchasesAddBarcode ==
    PurchasesAddBarcodeFrom({"7501055354651"}, {MaxQuantity}, {0})

StaleDeleteProduct == DeleteProductFrom({1})

StaleSetPayment == SetPaymentFrom({20000})

StaleCompleteSale == CompleteSale(FALSE, {"saved"})

StaleSavePurchase == SavePurchase({NullNum}, FALSE)

StaleRecordSale ==
    RecordSaleOf({<<SaleLine(2, 1, 1700, 1700), SaleLine(6, 1, 1000, 1000)>>},
                 {0}, {0}, FALSE)

StaleRecordPurchase ==
    RecordPurchaseOf({<<PurchaseLine(2, 1, 1700, 1700),
                        PurchaseLine(6, 1, 1000, 1000)>>}, {NullNum}, FALSE)

NextStale ==
    StaleSalesAddBarcode \/ StalePurchasesAddBarcode \/ StaleDeleteProduct
       \/ StaleSetPayment \/ StaleCompleteSale \/ StaleSavePurchase
       \/ StaleRecordSale \/ StaleRecordPurchase \/ Return

SpecStale == Init /\ [][NextStale]_vars

(***************************************************************************)
(* References between the tables                                           *)
(***************************************************************************)
\* sales and purchases of products 1 and 2 and of a missing product, from no
\* supplier, an existing and a missing one, with a fault at any statement;
\* products are deleted, suppliers are added and deleted, and the
\* transactions are cleared, with a fault at any statement of the script
IntegritySaleCarts ==
    {<<SaleLine(1, 2, 1800, 3600)>>,
     <<SaleLine(2, 1, 1700, 1700), SaleLine(6, 1, 1000, 1000)>>}

IntegrityPurchaseCarts ==
    {<<PurchaseLine(2, 10, 800, 8000)>>,
     <<PurchaseLine(1, 1, 800, 800), PurchaseLine(6, 1, 1000, 1000)>>}

IntegrityRecordSale == RecordSaleOf(IntegritySaleCarts, {0}, {0}, TRUE)

IntegrityRecordPurchase ==
    RecordPurchaseOf(IntegrityPurchaseCarts, SupplierIds, TRUE)

IntegrityDeleteProduct == DeleteProductFrom({1, 3})

IntegrityDeleteSupplier == DeleteSupplierFrom({1})

IntegrityClearTransactions == ClearTransactions(TRUE)

NextIntegrity ==
    IntegrityRecordSale \/ IntegrityRecordPurchase
       \/ IntegrityDeleteProduct \/ AddSupplier \/ IntegrityDeleteSupplier
       \/ IntegrityClearTransactions \/ Return

SpecIntegrity == Init /\ [][NextIntegrity]_vars

(***************************************************************************)
(* Checking out                                                            *)
(***************************************************************************)
\* product 1, an unknown barcode and an empty one are scanned; the discount
\* is nothing or 20.00, more than one unit and less than two; the payment is
\* nothing or 20.00, enough for one unit, or for two with the discount; the
\* sale is completed with a fault at any statement of record_sale and with a
\* ticket that is saved or fails
CheckoutAddBarcode ==
    SalesAddBarcodeFrom({" 7501055354651 ", "999", "  "}, {1})

CheckoutSetDiscount == SetDiscountFrom({0, 2000})

CheckoutSetPayment == SetPaymentFrom({0, 2000})

CheckoutCompleteSale == CompleteSale(TRUE, {"saved", "failed"})

NextCheckout ==
    CheckoutAddBarcode \/ CheckoutSetDiscount \/ CheckoutSetPayment
       \/ CheckoutCompleteSale \/ ClearCart \/ Return

SpecCheckout == Init /\ [][NextCheckout]_vars

(***************************************************************************)
(* Filling the carts                                                       *)
(***************************************************************************)
\* products 1 and 2 and an unknown barcode are scanned into the sales cart by
\* 1 or 2 units, product 1 and an unknown barcode into the purchases cart
\* with no cost, a cost of 9.00 or of 10.00; lines are removed, the cart is
\* cleared, and the price of product 1 changes between 18.00 and 25.00
CartSalesAddBarcode ==
    SalesAddBarcodeFrom({" 7501055354651 ", "7501000111409", "999", "  "},
                        {1, 2})

CartPurchasesAddBarcode ==
    PurchasesAddBarcodeFrom({"7501055354651", "999"}, {1}, {0, 900, 1000})

CartUpdateProduct ==
    UpdateProductFrom({1}, {"7501055354651"}, {"Coca Cola 600ml"},
                      {1800, 2500}, {50})

NextCart ==
    CartSalesAddBarcode \/ CartPurchasesAddBarcode \/ RemoveSelectedItem
       \/ ClearCart \/ CartUpdateProduct \/ Return

SpecCart == Init /\ [][NextCart]_vars

(***************************************************************************)
(* The ids of sales and purchases                                          *)
(***************************************************************************)
\* product 1 is sold from the sales screen, with a ticket that is saved or
\* fails, and purchased; either transaction can fail at any statement, and
\* the transactions are cleared, wholly or in part, at any moment
IdsAddBarcode == SalesAddBarcodeFrom({"7501055354651"}, {MaxQuantity})

IdsSetPayment == SetPaymentFrom({20000})

IdsCompleteSale == CompleteSale(TRUE, {"saved", "failed"})

IdsRecordPurchase ==
    RecordPurchaseOf({<<PurchaseLine(1, 10, 800, 8000)>>}, {NullNum}, TRUE)

IdsClearTransactions == ClearTransactions(TRUE)

NextIds ==
    IdsAddBarcode \/ IdsSetPayment \/ IdsCompleteSale \/ IdsRecordPurchase
       \/ IdsClearTransactions \/ Return

SpecIds == Init /\ [][NextIds]_vars

(***************************************************************************)
(* Properties                                                              *)
(***************************************************************************)
\* the quantity a cart transacts for product p, over all its lines
RECURSIVE QuantityOf(_, _)
QuantityOf(items, p) ==
    IF items = <<>> THEN 0
    ELSE (IF Head(items).product_id = p THEN Head(items).quantity ELSE 0)
         + QuantityOf(Tail(items), p)

\* the sum of the line totals of a cart, line by line from the last
LineTotalSum(items) ==
    LET S[k \in 0 .. Len(items)] ==
            IF k = 0 THEN 0 ELSE S[k - 1] + items[k].line_total
    IN  S[Len(items)]

\* every line of the cart names a product that existed when the call started
CartProductsExist(items) ==
    \A k \in 1 .. Len(items) : items[k].product_id \in DOMAIN prev.products

\* every product is as before the call, but for its stock, which moved by
\* sign times the quantity the cart transacts for it
StockMovedBy(items, sign) ==
    /\ DOMAIN db.products = DOMAIN prev.products
    /\ \A p \in DOMAIN prev.products :
          db.products[p] =
             [prev.products[p] EXCEPT !.stock = @ + sign * QuantityOf(items, p)]

\* the call's sale header and one item row per line, in order, are persisted
SalePersisted ==
    LET id == last.ret[1] IN
    /\ id \notin DOMAIN prev.sales
    /\ DOMAIN db.sales = DOMAIN prev.sales \cup {id}
    /\ DOMAIN db.sale_items =
          DOMAIN prev.sale_items \cup
             {prev.seq.sale_items + k : k \in 1 .. Len(last.items)}
    /\ \A k \in 1 .. Len(last.items) :
          /\ prev.seq.sale_items + k \notin DOMAIN prev.sale_items
          /\ db.sale_items[prev.seq.sale_items + k] =
                [sale_id |-> id, product_id |-> last.items[k].product_id,
                 quantity |-> last.items[k].quantity, price |-> last.items[k].price,
                 line_total |-> last.items[k].line_total]
    /\ StockMovedBy(last.items, -1)

PurchasePersisted ==
    LET id == last.ret[1] IN
    /\ id \notin DOMAIN prev.purchases
    /\ DOMAIN db.purchases = DOMAIN prev.purchases \cup {id}
    /\ DOMAIN db.purchase_items =
          DOMAIN prev.purchase_items \cup
             {prev.seq.purchase_items + k : k \in 1 .. Len(last.items)}
    /\ \A k \in 1 .. Len(last.items) :
          /\ prev.seq.purchase_items + k \notin DOMAIN prev.purchase_items
          /\ db.purchase_items[prev.seq.purchase_items + k] =
                [purchase_id |-> id, product_id |-> last.items[k].product_id,
                 quantity |-> last.items[k].quantity, cost |-> last.items[k].cost,
                 line_total |-> last.items[k].line_total]
    /\ StockMovedBy(last.items, 1)

\* C1: record_sale and record_purchase are all-or-nothing.  A call that
\* raises, whatever the statement the failure comes at (the header insert, an
\* item insert, a stock update, the commit), leaves the store exactly as it
\* was when the call started; a call that returns has its header, every item
\* row and every stock delta in the store.
C1_AllOrNothing ==
    /\ last.op = "record_sale" =>
          /\ last.raised # "" => db = prev
          /\ last.raised = "" => SalePersisted
    /\ last.op = "record_purchase" =>
          /\ last.raised # "" => db = prev
          /\ last.raised = "" => PurchasePersisted

\* a sale of two lines fails at its last stock update, after the header, both
\* item rows and the first stock update
C1_Witness ==
    /\ last.op = "record_sale"
    /\ Len(last.items) = 2
    /\ last.fault = 5
    /\ last.raised = "OperationalError"
    /\ db = prev

\* C2: after a successful record_sale the stock of every product is the old
\* stock minus the quantities of the lines that name it (also when several
\* lines name it), the products no line names keep their stock, and no
\* barcode, name or price changes.
C2_SaleSubtractsStock ==
    (last.op = "record_sale" /\ last.raised = "") =>
        /\ DOMAIN db.products = DOMAIN prev.products
        /\ \A p \in DOMAIN prev.products :
              /\ db.products[p].stock =
                    prev.products[p].stock - QuantityOf(last.items, p)
              /\ db.products[p].barcode = prev.products[p].barcode
              /\ db.products[p].name = prev.products[p].name
              /\ db.products[p].price = prev.products[p].price

\* a sale of two lines of the same product has succeeded
C2_Witness ==
    /\ last.op = "record_sale"
    /\ last.raised = ""
    /\ Len(last.items) = 2
    /\ last.items[1].product_id = last.items[2].product_id
    /\ db.products[last.items[1].product_id].stock
          = prev.products[last.items[1].product_id].stock
            - 2 * last.items[1].quantity

\* C3: after a successful record_purchase the stock of every product is the
\* old stock plus the quantities of the lines that name it and the other
\* products keep their stock; a purchase without supplier (supplier_id
\* null) of existing products is committed, with a null supplier_id.
C3_PurchaseAddsStock ==
    last.op = "record_purchase" =>
        /\ last.raised = "" =>
              /\ DOMAIN db.products = DOMAIN prev.products
              /\ \A p \in DOMAIN prev.products :
                    db.products[p].stock =
                       prev.products[p].stock + QuantityOf(last.items, p)
        /\ (last.supplier_id = NullNum /\ last.items # <<>>
                /\ CartProductsExist(last.items)) =>
              /\ last.raised = ""
              /\ last.ret[1] \in DOMAIN db.purchases
              /\ db.purchases[last.ret[1]].supplier_id = NullNum

\* a purchase without supplier, of two lines of the same product, is committed
C3_Witness ==
    /\ last.op = "record_purchase"
    /\ last.raised = ""
    /\ last.supplier_id = NullNum
    /\ Len(last.items) = 2
    /\ last.items[1].product_id = last.items[2].product_id
    /\ db.products[last.items[1].product_id].stock
          > prev.products[last.items[1].product_id].stock

\* C4: record_sale and record_purchase called with an empty cart raise
\* ValueError before any write: every table is unchanged and no id is
\* consumed (sqlite_sequence is unchanged).
C4_EmptyCartRejected ==
    (last.op \in {"record_sale", "record_purchase"} /\ last.items = <<>>) =>
        /\ last.raised = "ValueError"
        /\ db = prev

\* record_sale was called with an empty cart on a store that already holds a sale
C4_Witness ==
    /\ last.op = "record_sale"
    /\ last.items = <<>>
    /\ last.raised = "ValueError"
    /\ DOMAIN db.sales # {}

\* C5: for every non-empty cart, discount and tax rate, record_sale takes
\* subtotal = the sum of the caller's line totals, discount = max(0,
\* discount), taxable = max(0, subtotal - discount), tax_amount = taxable x
\* tax_rate, total = taxable + tax_amount; it returns that total and stores
\* exactly these values in the new sale header.
C5_SaleTotals ==
    (last.op = "record_sale" /\ last.items # <<>>) =>
        LET subtotal   == LineTotalSum(last.items)
            discount   == IF last.discount > 0 THEN last.discount ELSE 0
            taxable    == IF subtotal > discount THEN subtotal - discount ELSE 0
            tax_amount == (taxable * last.tax_rate) \div RateScale
            total      == taxable + tax_amount
        IN  /\ last.raised = ""
            /\ last.ret[2] = total
            /\ last.ret[1] \notin DOMAIN prev.sales
            /\ last.ret[1] \in DOMAIN db.sales
            /\ db.sales[last.ret[1]] =
                  [subtotal |-> subtotal, discount |-> discount,
                   tax_rate |-> last.tax_rate, tax_amount |-> tax_amount,
                   total |-> total]

\* the sale of the specification's scenario: line total 20.00, discount 5.00,
\* tax rate 0.1, total 16.50, on a line whose quantity x price is 36.00
C5_Witness ==
    /\ last.op = "record_sale"
    /\ last.raised = ""
    /\ last.discount = 500
    /\ last.tax_rate = 10
    /\ Len(last.items) = 1
    /\ last.items[1].quantity * last.items[1].price # last.items[1].line_total
    /\ last.ret[2] = 1650
    /\ db.sales[last.ret[1]].tax_amount = 150

\* C6: record_purchase returns, and stores in the purchase header, the sum of
\* the caller's line totals, with no discount and no tax.
C6_PurchaseTotal ==
    (last.op = "record_purchase" /\ last.raised = "") =>
        /\ last.ret[2] = LineTotalSum(last.items)
        /\ last.ret[1] \notin DOMAIN prev.purchases
        /\ last.ret[1] \in DOMAIN db.purchases
        /\ db.purchases[last.ret[1]].total = LineTotalSum(last.items)

\* a purchase is committed that has a line whose total is not quantity x cost
C6_Witness ==
    /\ last.op = "record_purchase"
    /\ last.raised = ""
    /\ \E k \in 1 .. Len(last.items) :
          last.items[k].line_total # last.items[k].quantity * last.items[k].cost
    /\ db.purchases[last.ret[1]].total = last.ret[2]

\* C7: record_sale never rejects or alters a sale for lack of stock: a sale of
\* existing products commits whatever the stock, and a product sold beyond
\* its stock is left negative by exactly the shortfall.
C7_NoStockFloor ==
    (last.op = "record_sale" /\ last.items # <<>> /\ last.fault = 0
        /\ CartProductsExist(last.items)) =>
        /\ last.raised = ""
        /\ \A p \in DOMAIN prev.products :
              QuantityOf(last.items, p) > prev.products[p].stock =>
                 /\ db.products[p].stock < 0
                 /\ 0 - db.products[p].stock
                       = QuantityOf(last.items, p) - prev.products[p].stock

\* a sale of more than the stock has committed and left the stock negative
C7_Witness ==
    /\ last.op = "record_sale"
    /\ last.raised = ""
    /\ \E p \in DOMAIN prev.products :
          /\ prev.products[p].stock >= 0
          /\ QuantityOf(last.items, p) > prev.products[p].stock
          /\ db.products[p].stock < 0

\* C8: add_product with a barcode an existing product has returns False
\* without raising and leaves the products table as it was.
C8_DuplicateBarcodeRefused ==
    (last.op = "add_product" /\ BarcodeTaken(prev, last.barcode, 0)) =>
        /\ last.raised = ""
        /\ last.ret = FALSE
        /\ db.products = prev.products

\* add_product was called with a taken barcode and otherwise valid arguments
C8_Witness ==
    /\ last.op = "add_product"
    /\ BarcodeTaken(prev, last.barcode, 0)
    /\ last.name # NULL /\ last.price # NullNum /\ last.stock # NullNum
    /\ last.ret = FALSE
    /\ Cardinality(DOMAIN db.products) = Cardinality(DOMAIN prev.products)

\* C9: add_product returns the duplicate signal exactly when the barcode
\* already exists: a call whose barcode is not in the products table,
\* whatever its name, price and stock (missing values included), returns
\* success and inserts the product.
C9_DuplicateSignalExactlyWhenTaken ==
    last.op = "add_product" =>
        /\ (last.ret = FALSE) <=> BarcodeTaken(prev, last.barcode, 0)
        /\ ~BarcodeTaken(prev, last.barcode, 0) =>
              /\ last.ret = TRUE
              /\ BarcodeTaken(db, last.barcode, 0)

\* C10: update_product of an existing product returns the duplicate signal
\* and changes nothing when another product has the barcode; when the
\* barcode is the product's own or unused it succeeds, row id carries exactly
\* the new barcode, name, price and stock, and the other rows are unchanged.
C10_UpdateDuplicateRule ==
    (last.op = "update_product" /\ last.product_id \in DOMAIN prev.products) =>
        /\ BarcodeTaken(prev, last.barcode, last.product_id) =>
              /\ last.ret = FALSE
              /\ db = prev
        /\ ~BarcodeTaken(prev, last.barcode, last.product_id) =>
              /\ last.ret = TRUE
              /\ db.products =
                    [prev.products EXCEPT ![last.product_id] =
                        [barcode |-> last.barcode, name |-> last.name,
                         price |-> last.price, stock |-> last.stock]]


\* C11: in every reachable state no two products share a barcode and no two
\* users share a username.  A call of add_product, update_product, add_user or
\* update_user that would make two rows share one returns FALSE without
\* raising and leaves the store, with every existing row, as it was.
C11_UniqueBarcodeAndUsername ==
    /\ \A p, q \in DOMAIN db.products :
          db.products[p].barcode = db.products[q].barcode => p = q
    /\ \A u, v \in DOMAIN db.users :
          db.users[u].username = db.users[v].username => u = v
    /\ (last.op = "add_product" /\ BarcodeTaken(prev, last.barcode, 0))
          => (last.raised = "" /\ last.ret = FALSE /\ db = prev)
    /\ (/\ last.op = "update_product"
        /\ last.product_id \in DOMAIN prev.products
        /\ BarcodeTaken(prev, last.barcode, last.product_id))
          => (last.raised = "" /\ last.ret = FALSE /\ db = prev)
    /\ (last.op = "add_user" /\ UsernameTaken(prev, last.username, 0))
          => (last.raised = "" /\ last.ret = FALSE /\ db = prev)
    /\ (/\ last.op = "update_user"
        /\ last.user_id \in DOMAIN prev.users
        /\ UsernameTaken(prev, last.username, last.user_id))
          => (last.raised = "" /\ last.ret = FALSE /\ db = prev)

\* an edit of user 2 that takes the administrator's username and sets a
\* password, on a store where a product took a new barcode, was refused
C11_Witness ==
    /\ last.op = "update_user"
    /\ last.user_id = 2
    /\ last.user_id \in DOMAIN prev.users
    /\ last.password = "new"
    /\ UsernameTaken(prev, last.username, last.user_id)
    /\ \E p \in DOMAIN db.products : db.products[p].barcode = "123"
    /\ last.ret = FALSE

\* C12: delete_product of a product that a sale item or a purchase item names
\* raises IntegrityError, which it does not catch, and leaves the product row
\* and the item rows, with the rest of the store, as they were.  A product
\* that no item row names is deleted, and nothing else changes.
C12_DeleteProductRestricted ==
    last.op = "delete_product" =>
       LET p == last.product_id
           named == \/ \E i \in DOMAIN prev.sale_items :
                          prev.sale_items[i].product_id = p
                    \/ \E i \in DOMAIN prev.purchase_items :
                          prev.purchase_items[i].product_id = p
       IN  IF p \in DOMAIN prev.products /\ named
           THEN /\ last.raised = "IntegrityError"
                /\ p \in DOMAIN db.products
                /\ db.products[p] = prev.products[p]
                /\ db.sale_items = prev.sale_items
                /\ db.purchase_items = prev.purchase_items
                /\ db = prev
           ELSE /\ last.raised = ""
                /\ p \notin DOMAIN db.products
                /\ DOMAIN db.products = DOMAIN prev.products \ {p}
                /\ \A q \in DOMAIN db.products : db.products[q] = prev.products[q]
                /\ db = [prev EXCEPT !.products = db.products]

\* the deletion of product 1, which two sale items name, was refused
C12_Witness ==
    /\ last.op = "delete_product"
    /\ last.product_id = 1
    /\ Cardinality({i \in DOMAIN prev.sale_items :
                       prev.sale_items[i].product_id = 1}) >= 2
    /\ last.raised = "IntegrityError"
    /\ 1 \in DOMAIN db.products

\* C13: delete_supplier of a supplier that purchases name returns without
\* raising: the supplier row is gone, every purchase that named it is still
\* there with supplier_id NULL and its total as before, every other purchase,
\* every purchase item and every product (its stock included) is as before.
C13_DeleteSupplierSetsNull ==
    last.op = "delete_supplier" =>
       LET s == last.supplier_id IN
       /\ last.raised = ""
       /\ s \notin DOMAIN db.suppliers
       /\ DOMAIN db.suppliers = DOMAIN prev.suppliers \ {s}
       /\ \A t \in DOMAIN db.suppliers : db.suppliers[t] = prev.suppliers[t]
       /\ DOMAIN db.purchases = DOMAIN prev.purchases
       /\ \A p \in DOMAIN prev.purchases :
             /\ db.purchases[p].total = prev.purchases[p].total
             /\ db.purchases[p].supplier_id =
                   IF prev.purchases[p].supplier_id = s
                   THEN NullNum
                   ELSE prev.purchases[p].supplier_id
       /\ db.purchase_items = prev.purchase_items
       /\ db.products = prev.products
       /\ db = [prev EXCEPT !.suppliers = db.suppliers, !.purchases = db.purchases]

\* supplier 1, named by two purchases, was deleted and both purchases remain
C13_Witness ==
    /\ last.op = "delete_supplier"
    /\ last.supplier_id = 1
    /\ Cardinality({p \in DOMAIN prev.purchases :
                       prev.purchases[p].supplier_id = 1}) >= 2
    /\ Cardinality({p \in DOMAIN db.purchases :
                       db.purchases[p].supplier_id = NullNum}) >= 2
    /\ DOMAIN db.suppliers = {}

\* C14: a clear_transactions call that returns leaves sales, sale_items,
\* purchases, purchase_items and expenses empty, and leaves products (their
\* current stock included), customers, suppliers, settings and users as they
\* were when it was called.
C14_ClearTransactions ==
    (last.op = "clear_transactions" /\ last.raised = "") =>
       /\ DOMAIN db.sales = {}
       /\ DOMAIN db.sale_items = {}
       /\ DOMAIN db.purchases = {}
       /\ DOMAIN db.purchase_items = {}
       /\ DOMAIN db.expenses = {}
       /\ db.products = prev.products
       /\ db.customers = prev.customers
       /\ db.suppliers = prev.suppliers
       /\ db.settings = prev.settings
       /\ db.users = prev.users

\* the transactions were cleared on a store with a sale, a purchase from a
\* supplier, an expense and a customer, where product 1 has a stock that is
\* not the seeded one
C14_Witness ==
    /\ last.op = "clear_transactions"
    /\ last.raised = ""
    /\ DOMAIN prev.sales # {}
    /\ \E p \in DOMAIN prev.purchases : prev.purchases[p].supplier_id = 1
    /\ DOMAIN prev.expenses # {}
    /\ DOMAIN prev.customers # {}
    /\ db.products[1].stock # StartupDb.products[1].stock
    /\ DOMAIN db.sales = {}

\* C15: a call of any operation but clear_transactions, whether it returns
\* or raises, leaves every sale, sale item and purchase item that was
\* persisted when it started in the store and as it was, and every purchase
\* too, except that delete_supplier may set its supplier_id to NULL.
C15_HistoryImmutable ==
    last.op # "clear_transactions" =>
       /\ \A id \in DOMAIN prev.sales :
             id \in DOMAIN db.sales /\ db.sales[id] = prev.sales[id]
       /\ \A i \in DOMAIN prev.sale_items :
             i \in DOMAIN db.sale_items /\ db.sale_items[i] = prev.sale_items[i]
       /\ \A i \in DOMAIN prev.purchase_items :
             /\ i \in DOMAIN db.purchase_items
             /\ db.purchase_items[i] = prev.purchase_items[i]
       /\ \A id \in DOMAIN prev.purchases :
             /\ id \in DOMAIN db.purchases
             /\ \/ db.purchases[id] = prev.purchases[id]
                \/ /\ last.op = "delete_supplier"
                   /\ db.purchases[id] =
                         [prev.purchases[id] EXCEPT !.supplier_id = NullNum]

\* product 1 took a new price after it was sold at the old one and purchased,
\* and the items of the sale and of the purchase are as they were
C15_Witness ==
    /\ last.op = "update_product"
    /\ last.ret = TRUE
    /\ 1 \in DOMAIN prev.products
    /\ db.products[1].price # prev.products[1].price
    /\ \E i \in DOMAIN prev.sale_items :
          /\ prev.sale_items[i].product_id = 1
          /\ prev.sale_items[i].price # db.products[1].price
          /\ db.sale_items[i] = prev.sale_items[i]
    /\ \E i \in DOMAIN prev.purchase_items : db.purchase_items[i] = prev.purchase_items[i]

\* the sum of the line totals of the rows of an item table with an id in ids
RECURSIVE RowsLineTotal(_, _)
RowsLineTotal(rows, ids) ==
    IF ids = {} THEN 0
    ELSE LET i == CHOOSE x \in ids : TRUE IN
         rows[i].line_total + RowsLineTotal(rows, ids \ {i})

\* C16: in every persisted state every sale has subtotal = the sum of the
\* line totals of its items, tax_amount = max(0, subtotal - discount) x
\* tax_rate and total = max(0, subtotal - discount) + tax_amount, and every
\* purchase has total = the sum of the line totals of its items.
C16_HeadersMatchItems ==
    /\ \A id \in DOMAIN db.sales :
          LET s       == db.sales[id]
              items   == {i \in DOMAIN db.sale_items : db.sale_items[i].sale_id = id}
              taxable == Max(0, s.subtotal - s.discount)
          IN  /\ s.subtotal = RowsLineTotal(db.sale_items, items)
              /\ s.tax_amount = (taxable * s.tax_rate) \div RateScale
              /\ s.total = taxable + s.tax_amount
    /\ \A id \in DOMAIN db.purchases :
          LET items == {i \in DOMAIN db.purchase_items :
                           db.purchase_items[i].purchase_id = id}
          IN  db.purchases[id].total = RowsLineTotal(db.purchase_items, items)

\* C17: settings holds at most one row per key.  get_setting returns the
\* value of the last set_setting of the key that returned, or the caller's
\* default when there was none; it never raises and writes nothing.  A
\* set_setting that returned leaves a store in which the key reads as the
\* value and which the same call, made again, would leave as it is.
C17_SettingsLastWriteWins ==
    /\ \A r1, r2 \in db.settings : r1.key = r2.key => r1 = r2
    /\ last.op = "get_setting" =>
          /\ last.raised = ""
          /\ db = prev
          /\ last.ret = IF last.key \in DOMAIN set_log
                        THEN set_log[last.key]
                        ELSE last.default
    /\ (last.op = "set_setting" /\ last.raised = "") =>
          /\ get_setting(db, last.key, "").ret = last.value
          /\ set_setting(db, last.key, last.value).db = db
          /\ \A r \in prev.settings : r.key # last.key => r \in db.settings

\* currency_symbol, which main set to "$", reads as a later value, not as the
\* caller's default
C17_Witness ==
    /\ last.op = "get_setting"
    /\ last.key = "currency_symbol"
    /\ last.ret = "MXN"
    /\ last.default = "Abarrotes"
    /\ \E r \in db.settings : r.key = "company_name" /\ r.value = "Bs"

\* C18: verify_user returns TRUE only if a user row has the username, its
\* is_active is 1 and its password_hash is the hash of the password.  For a
\* user whose is_active is 0 it returns FALSE whatever the password, the
\* right one included; for a username that no row has it returns FALSE and
\* does not raise.  It changes nothing.
C18_VerifyUser ==
    last.op = "verify_user" =>
       LET rows == {id \in DOMAIN prev.users :
                       prev.users[id].username = last.username}
       IN  /\ last.raised = ""
           /\ db = prev
           /\ last.ret \in BOOLEAN
           /\ last.ret = TRUE =>
                 \E id \in rows :
                    /\ prev.users[id].is_active = 1
                    /\ prev.users[id].password_hash = hash_password(last.password)
           /\ (\E id \in rows : prev.users[id].is_active = 0) => last.ret = FALSE
           /\ rows = {} => last.ret = FALSE

\* a deactivated user was refused with the password whose hash the row holds
C18_Witness ==
    /\ last.op = "verify_user"
    /\ \E id \in DOMAIN prev.users :
          /\ prev.users[id].username = last.username
          /\ prev.users[id].is_active = 0
          /\ prev.users[id].password_hash = hash_password(last.password)
    /\ last.ret = FALSE

\* the passwords a user may have
Passwords == {"1234", "new", ""}

\* C19: an update_user that returns TRUE for a user that exists stores the
\* username, display name, role and is_active it was given.  With a password
\* that is not empty it stores the hash of the password, so that, if the user
\* is active, verify_user accepts the new password and refuses every other
\* one, the old one included; with no password or an empty one it leaves the
\* hash as it was.
C19_UpdateUserPassword ==
    (last.op = "update_user" /\ last.ret = TRUE /\ last.user_id \in DOMAIN prev.users) =>
       LET old == prev.users[last.user_id]
           row == db.users[last.user_id]
       IN  /\ row.username = last.username
           /\ row.display_name = last.display_name
           /\ row.role = last.role
           /\ row.is_active = (IF last.is_active THEN 1 ELSE 0)
           /\ IF last.password # NULL /\ last.password # ""
              THEN /\ row.password_hash = hash_password(last.password)
                   /\ last.is_active =>
                         /\ verify_user(db, last.username, last.password).ret = TRUE
                         /\ \A q \in Passwords \ {last.password} :
                               verify_user(db, last.username, q).ret = FALSE
              ELSE row.password_hash = old.password_hash

\* the administrator, whose password was "1234", took the password "new"
\* and a new username and stayed active
C19_Witness ==
    /\ last.op = "update_user"
    /\ last.ret = TRUE
    /\ last.user_id = 1
    /\ last.password = "new"
    /\ last.is_active
    /\ prev.users[1].password_hash = hash_password("1234")
    /\ prev.users[1].username # last.username
    /\ verify_user(db, last.username, "new").ret = TRUE
    /\ verify_user(db, last.username, "1234").ret = FALSE

\* C20: every operation has ended its transaction when it returns or raises:
\* a call that raised has left nothing of its writes in the persisted store,
\* which is as it was when the call started.
C20_RaisedMeansRolledBack ==
    (last.op # "none" /\ last.raised # "") => db = prev

\* search occurs in txt as a run of consecutive characters, letters compared
\* without case
Contains(search, txt) ==
    \E i \in 0 .. (Len(txt) - Len(search)) :
       \A k \in 1 .. Len(search) : Lower(txt[i + k]) = Lower(search[k])

\* C21: list_products returns every product when the search is empty, and
\* otherwise exactly the products whose barcode or name contains the search
\* as a substring, without regard to case, also when the search holds % or _;
\* the rows are in ascending order of name.
C21_ListProductsSubstring ==
    last.op = "list_products" =>
       LET rows   == last.ret
           wanted == IF last.search = ""
                     THEN DOMAIN prev.products
                     ELSE {p \in DOMAIN prev.products :
                              \/ Contains(Chars(last.search),
                                          Chars(prev.products[p].barcode))
                              \/ Contains(Chars(last.search),
                                          Chars(prev.products[p].name))}
       IN  /\ last.raised = ""
           /\ {rows[k].id : k \in 1 .. Len(rows)} = wanted
           /\ Len(rows) = Cardinality(wanted)
           /\ \A k \in 1 .. Len(rows) : rows[k] = ProductRow(prev, rows[k].id)
           /\ \A j, k \in 1 .. Len(rows) :
                 j < k => TextLeq(Chars(rows[j].name), Chars(rows[k].name))

\* the sum of a column over the sale items of product p in the sales with an
\* id in sale_ids, item by item up to the n-th
ItemsSum(d, p, sale_ids, column) ==
    LET S[n \in 0 .. d.seq.sale_items] ==
            IF n = 0 THEN 0
            ELSE S[n - 1] + (IF /\ n \in DOMAIN d.sale_items
                                /\ d.sale_items[n].product_id = p
                                /\ d.sale_items[n].sale_id \in sale_ids
                             THEN d.sale_items[n][column]
                             ELSE 0)
    IN  S[d.seq.sale_items]

\* the rows of a report over the sales with an id in sale_ids: one per
\* product that has an item in one of them, with the sums of its items
ReportRows(d, sale_ids) ==
    {[barcode |-> d.products[p].barcode, name |-> d.products[p].name,
      quantity |-> ItemsSum(d, p, sale_ids, "quantity"),
      total |-> ItemsSum(d, p, sale_ids, "line_total")] :
        p \in {q \in DOMAIN d.products :
                  \E i \in DOMAIN d.sale_items :
                     /\ d.sale_items[i].product_id = q
                     /\ d.sale_items[i].sale_id \in sale_ids}}

\* a sequence of report rows with no row twice and quantities that never rise
QuantityDescending(rows) ==
    /\ \A j, k \in 1 .. Len(rows) : j < k => rows[j] # rows[k]
    /\ \A j, k \in 1 .. Len(rows) : j < k => rows[j].quantity >= rows[k].quantity

\* the calendar date of a timestamp: its first ten characters
Day(created_at) ==
    CASE created_at \in {"2026-11-01 00:00:00", "2026-11-01 23:59:59"} -> "2026-11-01"
      [] created_at = "2026-11-02 08:30:00" -> "2026-11-02"

\* C22: get_daily_sales_summary(date) returns one row per product with an
\* item in a sale created on that date, at any time of the day, with the
\* sums of quantity and line_total over those items, in descending order of
\* quantity; get_top_products(limit) returns the rows of the same grouping
\* over all sales, in the same order, cut to limit rows.  Neither writes.
C22_SalesReports ==
    /\ last.op = "get_daily_sales_summary" =>
          LET sale_ids == {id \in DOMAIN prev.sales :
                              Day(prev.sales[id].created_at) = last.target_date}
              rows     == last.ret
          IN  /\ last.raised = ""
              /\ db = prev
              /\ {rows[k] : k \in 1 .. Len(rows)} = ReportRows(prev, sale_ids)
              /\ QuantityDescending(rows)
    /\ last.op = "get_top_products" =>
          LET all  == ReportRows(prev, DOMAIN prev.sales)
              rows == last.ret
          IN  /\ last.raised = ""
              /\ db = prev
              /\ {rows[k] : k \in 1 .. Len(rows)} \subseteq all
              /\ QuantityDescending(rows)
              /\ Len(rows) = (IF Cardinality(all) < last.limit
                              THEN Cardinality(all) ELSE last.limit)
              /\ \A r \in all : \A k \in 1 .. Len(rows) :
                    r.quantity > rows[k].quantity => \E j \in 1 .. k : rows[j] = r

\* the report of a day with a sale of two products in its last second, while
\* product 1 was sold on the next day too: two rows, product 1 with the
\* quantity of the first day only
C22_Witness ==
    /\ last.op = "get_daily_sales_summary"
    /\ last.target_date = "2026-11-01"
    /\ Len(last.ret) = 2
    /\ \E id \in DOMAIN prev.sales : prev.sales[id].created_at = "2026-11-01 23:59:59"
    /\ \E id \in DOMAIN prev.sales : prev.sales[id].created_at = "2026-11-02 08:30:00"
    /\ \E k \in 1 .. 2 : last.ret[k].barcode = "7501055354651" /\ last.ret[k].quantity = 1
    /\ ItemsSum(prev, 1, DOMAIN prev.sales, "quantity") > 1

\* C23: starting the program on a store that has the schema writes the sample
\* products only when there is no product, the administrator only when there
\* is no user, and each of the two default settings only when it has no
\* value or an empty one; every product, user and non-empty setting that was
\* there is left as it was, and so is the rest of the store.  A second start
\* right after changes nothing, and the first start on a new store gives the
\* initial state.
C23_StartupIdempotent ==
    /\ main(NewStore).db = StartupDb
    /\ last.op = "main" =>
          /\ last.raised = ""
          /\ main(db).db = db
          /\ init_db(prev).db = prev
          /\ \A p \in DOMAIN prev.products :
                p \in DOMAIN db.products /\ db.products[p] = prev.products[p]
          /\ DOMAIN prev.products # {} => db.products = prev.products
          /\ DOMAIN prev.products = {} =>
                Cardinality(DOMAIN db.products) = Len(SampleProducts)
          /\ DOMAIN prev.users # {} => db.users = prev.users
          /\ DOMAIN prev.users = {} =>
                \E u \in DOMAIN db.users :
                   /\ DOMAIN db.users = {u}
                   /\ db.users[u].username = "admin"
          /\ \A r \in prev.settings : r.value # "" => r \in db.settings
          /\ \A r \in db.settings :
                r \in prev.settings \/ r.key \in {"currency_symbol", "ticket_footer"}
          /\ db = [prev EXCEPT !.products = db.products, !.users = db.users,
                               !.settings = db.settings, !.seq = db.seq]

\* the program started on a store where a product and the administrator had
\* been edited and the currency symbol changed, and it wrote nothing
C23_Witness ==
    /\ last.op = "main"
    /\ 1 \in DOMAIN prev.products
    /\ prev.products[1].name = "Coca Cola 1L"
    /\ \E u \in DOMAIN prev.users : prev.users[u].username = "root"
    /\ [key |-> "currency_symbol", value |-> "MXN"] \in prev.settings
    /\ db = prev

\* the sum of the quantity column over the item rows of product p
RECURSIVE QuantitySum(_, _, _)
QuantitySum(rows, ids, p) ==
    IF ids = {} THEN 0
    ELSE LET i == CHOOSE x \in ids : TRUE
         IN  (IF rows[i].product_id = p THEN rows[i].quantity ELSE 0)
             + QuantitySum(rows, ids \ {i}, p)

\* C24: when only add_product, record_sale and record_purchase have run,
\* successfully or not, the stock of every product is the stock it was added
\* with, plus the quantities of its purchase_items rows, minus the quantities
\* of its sale_items rows
C24_StockLedger ==
    \A p \in DOMAIN db.products :
        /\ p \in DOMAIN stock_log
        /\ db.products[p].stock =
             stock_log[p]
             + QuantitySum(db.purchase_items, DOMAIN db.purchase_items, p)
             - QuantitySum(db.sale_items, DOMAIN db.sale_items, p)

\* the added product has been bought and sold, product 1 has been sold below
\* zero, and a call has failed
C24_Witness ==
    /\ 6 \in DOMAIN db.products
    /\ QuantitySum(db.purchase_items, DOMAIN db.purchase_items, 6) > 0
    /\ QuantitySum(db.sale_items, DOMAIN db.sale_items, 6) > 0
    /\ db.products[1].stock < 0
    /\ last # NoCall
    /\ last.op = "record_purchase"
    /\ last.raised # ""

\* some line of the cart names a product the store does not have
HasMissingProduct(d, items) ==
    \E i \in DOMAIN items : items[i].product_id \notin DOMAIN d.products

\* C25: record_sale and record_purchase, given a cart with a line whose
\* product does not exist, raise and leave the store as it was (no header, no
\* item row, no stock change); called from complete_sale or save_purchase,
\* the screen keeps its cart
C25_MissingProductFails ==
    (/\ last # NoCall
     /\ last.op \in {"record_sale", "record_purchase", "complete_sale",
                     "save_purchase"}
     /\ last.items # <<>>
     /\ HasMissingProduct(prev, last.items))
    => /\ last.op \in {"record_sale", "record_purchase"}
          => last.raised # "" /\ db = prev
       /\ last.op = "complete_sale" /\ last.result # "insufficient"
          => /\ last.result = "error"
             /\ last.raised # ""
             /\ db = prev
             /\ ui.cart = last.items
       /\ last.op = "save_purchase"
          => /\ last.result = "error"
             /\ last.raised # ""
             /\ db = prev
             /\ ui.purchase_cart = last.items

\* complete_sale has been pressed on a paid cart of two lines of which the
\* first names the deleted product 1 and the second the existing product 2
C25_Witness ==
    /\ last # NoCall
    /\ last.op = "complete_sale"
    /\ last.result = "error"
    /\ Len(last.items) = 2
    /\ last.items[1].product_id = 1
    /\ last.items[2].product_id = 2
    /\ 1 \notin DOMAIN prev.products
    /\ 2 \in DOMAIN prev.products
    /\ last.payment >= SumLineTotal(last.items)
    /\ db.products[2].stock = SampleProducts[2].stock
    /\ ui.purchase_cart # <<>>

\* C26: in every reachable state every sale_items row references an existing
\* sale and an existing product, every purchase_items row an existing
\* purchase and an existing product, and every purchase no supplier or an
\* existing one
C26_ReferentialIntegrity ==
    /\ \A i \in DOMAIN db.sale_items :
           /\ db.sale_items[i].sale_id \in DOMAIN db.sales
           /\ db.sale_items[i].product_id \in DOMAIN db.products
    /\ \A i \in DOMAIN db.purchase_items :
           /\ db.purchase_items[i].purchase_id \in DOMAIN db.purchases
           /\ db.purchase_items[i].product_id \in DOMAIN db.products
    /\ \A p \in DOMAIN db.purchases :
           \/ db.purchases[p].supplier_id = NullNum
           \/ db.purchases[p].supplier_id \in DOMAIN db.suppliers

\* the clearing script has failed after emptying sale_items, with the sales
\* still there, next to a purchase whose supplier has been deleted and after
\* a product was deleted
C26_Witness ==
    /\ last # NoCall
    /\ last.op = "clear_transactions"
    /\ last.raised # ""
    /\ DOMAIN prev.sale_items # {}
    /\ DOMAIN db.sale_items = {}
    /\ DOMAIN db.sales # {}
    /\ DOMAIN db.purchase_items # {}
    /\ db.seq.suppliers > 0
    /\ DOMAIN db.suppliers = {}
    /\ DOMAIN db.products # DOMAIN StartupDb.products

\* C27: when complete_sale has committed a sale, it leaves the cart empty and
\* the discount and payment fields at 0, whether or not the ticket could be
\* produced, so that the cart cannot be recorded a second time
C27_CartClearedAfterSale ==
    (last # NoCall /\ last.op = "complete_sale" /\ last.recorded)
    => /\ ui.cart = <<>>
       /\ ui.discount = 0
       /\ ui.payment = 0

\* C28: complete_sale writes to the store only when the cart is not empty
\* and the payment is at least max(0, subtotal - discount); with an empty
\* cart or a short payment the store, the cart, the discount and the payment
\* stay as they were; when a sale is recorded, the change is
\* max(0, payment - total of the sale)
C28_CompleteSalePayment ==
    (last # NoCall /\ last.op = "complete_sale")
    => LET due  == Max(0, SumLineTotal(last.items) - last.discount)
           paid == last.items # <<>> /\ last.payment >= due
       IN  /\ (last.recorded \/ db # prev) => paid
           /\ ~paid => /\ db = prev
                       /\ ui.cart = last.items
                       /\ ui.discount = last.discount
                       /\ ui.payment = last.payment
           /\ last.recorded
              => /\ db.seq.sales = prev.seq.sales + 1
                 /\ db.seq.sales \in DOMAIN db.sales
                 /\ last.change =
                      Max(0, last.payment - db.sales[db.seq.sales].total)

\* a second sale, of a cart of more than one unit with a discount, has been
\* recorded with change to give back
C28_Witness ==
    /\ last # NoCall
    /\ last.op = "complete_sale"
    /\ last.result = "done"
    /\ last.discount = 2000
    /\ last.items[1].quantity > 1
    /\ last.change = last.payment - (SumLineTotal(last.items) - 2000)
    /\ last.change > 0
    /\ db.seq.sales = 2

\* the lines of a cart are those of the history: one line per barcode added
\* and not removed since, with the unit price or cost of the add that made
\* the line, the sum of the quantities added since, and their product as the
\* line total
CartFollows(cart, log, unit) ==
    /\ \A i, j \in DOMAIN cart : cart[i].barcode = cart[j].barcode => i = j
    /\ {cart[i].barcode : i \in DOMAIN cart} = DOMAIN log
    /\ \A i \in DOMAIN cart :
           /\ cart[i][unit] = log[cart[i].barcode].unit
           /\ cart[i].quantity = log[cart[i].barcode].quantity
           /\ cart[i].line_total = cart[i][unit] * cart[i].quantity

\* C29: after any sequence of add_barcode, remove_selected_item and
\* clear_cart, a cart has at most one line per barcode, each line's total is
\* its unit price (cost in purchases) times its quantity, its quantity is the
\* sum of the quantities added for the barcode, and its unit price or cost is
\* the one of the first add, whatever the catalog's price or the cost typed
\* later; an unknown barcode leaves the cart as it was
C29_CartLines ==
    /\ CartFollows(ui.cart, cart_log.sales, "price")
    /\ CartFollows(ui.purchase_cart, cart_log.purchases, "cost")

\* product 1 has been added to the purchases cart at the cost of 9.00 and
\* again at another cost, and is in the sales cart, next to product 2, with
\* more than one unit and the price it had before the catalog changed it
C29_Witness ==
    /\ last # NoCall
    /\ last.op = "add_barcode"
    /\ last.screen = "purchases"
    /\ last.cost = 1000
    /\ Len(ui.purchase_cart) = 1
    /\ ui.purchase_cart[1].cost = 900
    /\ ui.purchase_cart[1].line_total = 1800
    /\ Len(ui.cart) = 2
    /\ ui.cart[2].product_id = 1
    /\ ui.cart[2].quantity = 3
    /\ ui.cart[2].price = 1800
    /\ ui.cart[2].line_total = 5400
    /\ 1 \in DOMAIN db.products
    /\ db.products[1].price = 2500

\* each element of a sequence of ids is above the ones before it
StrictlyIncreasing(ids) ==
    \A i, j \in DOMAIN ids : i < j => ids[i] < ids[j]

\* C30: the ids that successive successful record_sale calls return, and
\* those of record_purchase, are strictly increasing, so none is returned
\* twice, whatever calls failed or cleared the tables in between; the ids
\* that name the ticket files written are therefore all different
C30_IdsNeverReused ==
    /\ StrictlyIncreasing(issued.sales)
    /\ StrictlyIncreasing(issued.purchases)
    /\ \A i, j \in DOMAIN ui.tickets : ui.tickets[i] = ui.tickets[j] => i = j
    /\ \A i \in DOMAIN ui.tickets :
           \E j \in DOMAIN issued.sales : issued.sales[j] = ui.tickets[i]

\* two sales and two purchases have been recorded with the tables cleared
\* between the first and the second, and both sales have their ticket
C30_Witness ==
    /\ Len(issued.sales) = 2
    /\ Len(issued.purchases) = 2
    /\ DOMAIN db.sales = {issued.sales[2]}
    /\ DOMAIN db.purchases = {issued.purchases[2]}
    /\ Len(ui.tickets) = 2

====
